---------------------------- MODULE Spec2Model ----------------------------
(***************************************************************************)
(* Model of the acquisition backend of SpotiFLAC-Mobile (Go):              *)
(*   - the sandboxed file API of the extension runtime (validatePath and   *)
(*     the script-facing file operations),                                 *)
(*   - the track identifier cache (TrackIDCache),                          *)
(*   - the ISRC content index (ISRCIndex).                                 *)
(* Strings that the code inspects character by character (paths, ISRCs)    *)
(* are sequences of one-character strings, so that filepath.Clean,         *)
(* strings.HasPrefix and strings.ToUpper are computed, not assumed.        *)
(***************************************************************************)
EXTENDS Integers, Sequences, FiniteSets, TLC

VARIABLES
    \* ---- sandboxed file API (extension runtime) ----
    allowedDownloadDirs,  \* package variable: list of registered directories
    filePerm,             \* r.manifest.Permissions.File
    dataDir,              \* r.dataDir
    vp,                   \* the validatePath call in progress: its input and result
    fcall,                \* the file operation in progress: its arguments, result and effects
    \* ---- track identifier cache ----
    now,                  \* time.Now(), in minutes
    cache,                \* c.cache: ISRC -> entry
    lastCleanup,          \* c.lastCleanup (meaningful when ~lastCleanupIsZero)
    lastCleanupIsZero,    \* c.lastCleanup.IsZero()
    pc,                   \* per task: position inside TrackIDCache.Get
    getLocal,             \* per task: locals of the Get in progress
    ret,                  \* per task: what the last cache call returned
    \* ---- ISRC content index ----
    disk,                 \* the output directory: file path -> kind of file and its ISRC tag
    heap,                 \* the ISRCIndex objects: reference -> index map and build time
    isrcIndexCache,       \* isrcIndexCache: dir -> reference to the cached index (or none)
    buildLock,            \* isrcBuildingMu: dir -> the task holding the build lock (or none)
    ipc,                  \* per task: position inside the index call in progress
    ilocal,               \* per task: locals of the index call in progress
    iret,                 \* what an index call returned, until the caller takes it
    \* ---- script execution, pre-warming, parallel fetch, HTTP with retry ----
    run,                  \* the RunWithTimeout call in progress: both goroutines, channel, timers
    warm,                 \* the PreWarmTrackCache call in progress and the resolver calls made
    fetch,                \* the FetchCoverAndLyricsParallel call in progress
    req                   \* the DoRequestWithCloudflareBypass call in progress

sandboxVars == <<allowedDownloadDirs, filePerm, dataDir, vp, fcall>>
cacheVars == <<now, cache, lastCleanup, lastCleanupIsZero, pc, getLocal, ret>>
indexVars == <<disk, heap, isrcIndexCache, buildLock, ipc, ilocal, iret>>
restVars == <<run, warm, fetch, req>>
vars == <<sandboxVars, cacheVars, indexVars, restVars>>

(***************************************************************************)
(* Strings as sequences of characters                                      *)
(***************************************************************************)
\* Longest path string handed to validatePath on its own.
MaxLen == 5
\* Longest list passed to SetAllowedDownloadDirs, and longest list grown by AddAllowedDownloadDir.
MaxDirs == 1

PathChars == {"/", ".", "a", "b"}

Strings(n) ==
    UNION {[1..k -> PathChars] : k \in 0..n}

Dot == <<".">>
DotDot == <<".", ".">>
Sep == <<"/">>

\* strings.HasPrefix(s, prefix)
HasPrefix(s, prefix) ==
    Len(s) >= Len(prefix) /\ SubSeq(s, 1, Len(prefix)) = prefix

\* filepath.IsAbs on a Unix target
IsAbs(p) ==
    Len(p) > 0 /\ p[1] = "/"

\* The elements of p between separators (empty elements kept).
RECURSIVE Split(_)
Split(s) ==
    IF s = <<>> THEN << <<>> >>
    ELSE LET rest == Split(Tail(s))
         IN  IF Head(s) = "/"
             THEN << <<>> >> \o rest
             ELSE << (<<Head(s)>> \o Head(rest)) >> \o Tail(rest)

\* The element stack filepath.Clean keeps while it scans the path: "" and "."
\* are dropped, ".." removes the element before it, is dropped at the root,
\* and is kept at the front of a relative path.
RECURSIVE CleanStack(_, _, _)
CleanStack(segs, rooted, st) ==
    IF segs = <<>> THEN st
    ELSE LET e == Head(segs)
             r == Tail(segs)
         IN  IF e = <<>> \/ e = Dot THEN CleanStack(r, rooted, st)
             ELSE IF e = DotDot
                  THEN IF st # <<>> /\ st[Len(st)] # DotDot
                       THEN CleanStack(r, rooted, SubSeq(st, 1, Len(st) - 1))
                       ELSE IF rooted THEN CleanStack(r, rooted, st)
                            ELSE CleanStack(r, rooted, Append(st, DotDot))
                  ELSE CleanStack(r, rooted, Append(st, e))

RECURSIVE JoinSegs(_)
JoinSegs(segs) ==
    IF segs = <<>> THEN <<>>
    ELSE IF Len(segs) = 1 THEN Head(segs)
    ELSE Head(segs) \o Sep \o JoinSegs(Tail(segs))

\* filepath.Clean
Clean(p) ==
    IF p = <<>> THEN Dot
    ELSE LET rooted == IsAbs(p)
             body == JoinSegs(CleanStack(Split(p), rooted, <<>>))
         IN  IF rooted THEN Sep \o body
             ELSE IF body = <<>> THEN Dot ELSE body

\* filepath.Join of two elements: empty elements are ignored, the rest is
\* joined with a separator and cleaned.
Join(a, b) ==
    IF a = <<>> /\ b = <<>> THEN <<>>
    ELSE IF a = <<>> THEN Clean(b)
    ELSE IF b = <<>> THEN Clean(a)
    ELSE Clean(a \o Sep \o b)

\* os.Getwd() of the host process
Cwd == <<"/", "b">>

\* filepath.Abs (os.Getwd does not fail)
Abs(p) ==
    IF IsAbs(p) THEN Clean(p) ELSE Join(Cwd, p)

\* Directory containment: abs is dir itself or lies below it (both clean, absolute).
Within(abs, dir) ==
    \/ abs = dir
    \/ dir = Sep /\ IsAbs(abs)
    \/ HasPrefix(abs, dir \o Sep)

(***************************************************************************)
(* Sandbox policy: allowed directories and validatePath                    *)
(***************************************************************************)
\* Data directories an extension runtime is created with.
DataDirs == { <<"/", "a">>, <<"/", "a", "/", "b">> }

\* Directories the host registers: clean absolute, with a trailing
\* separator, and relative.
DirInputs == { <<"/", "b">>, <<"/", "b", "/">>, <<"b">> }

DirLists ==
    UNION {[1..k -> DirInputs] : k \in 0..MaxDirs}

NoVp == [called |-> FALSE, path |-> <<>>, ok |-> FALSE, abs |-> <<>>, err |-> ""]

ErrNoFilePermission == "file access denied: extension does not have 'file' permission"
ErrAbsoluteNotAllowed == "file access denied: absolute paths are not allowed. Use relative paths within extension sandbox"
ErrOutsideSandbox == "file access denied: path is outside sandbox"

\* isPathInAllowedDirs
isPathInAllowedDirs(absPath) ==
    \E i \in 1..Len(allowedDownloadDirs) : HasPrefix(absPath, allowedDownloadDirs[i])

\* validatePath with the test of the file capability left out: a faulty
\* variant, against which C4 is shown to depend on that test.
validatePathNoPermissionCheck(path) ==
    LET cleanPath == Clean(path)
    IN  IF IsAbs(cleanPath)
        THEN IF isPathInAllowedDirs(Abs(cleanPath))
             THEN [ok |-> TRUE, abs |-> Abs(cleanPath), err |-> ""]
             ELSE [ok |-> FALSE, abs |-> <<>>, err |-> ErrAbsoluteNotAllowed]
        ELSE LET absPath == Abs(Join(dataDir, cleanPath))
             IN  IF ~HasPrefix(absPath, Abs(dataDir))
                 THEN [ok |-> FALSE, abs |-> <<>>, err |-> ErrOutsideSandbox]
                 ELSE [ok |-> TRUE, abs |-> absPath, err |-> ""]

\* ExtensionRuntime.validatePath: (absolute path, error)
validatePath(path) ==
    IF ~filePerm
    THEN [ok |-> FALSE, abs |-> <<>>, err |-> ErrNoFilePermission]
    ELSE LET cleanPath == Clean(path)
         IN  IF IsAbs(cleanPath)
             THEN IF isPathInAllowedDirs(Abs(cleanPath))
                  THEN [ok |-> TRUE, abs |-> Abs(cleanPath), err |-> ""]
                  ELSE [ok |-> FALSE, abs |-> <<>>, err |-> ErrAbsoluteNotAllowed]
             ELSE LET absPath == Abs(Join(dataDir, cleanPath))
                  IN  IF ~HasPrefix(absPath, Abs(dataDir))
                      THEN [ok |-> FALSE, abs |-> <<>>, err |-> ErrOutsideSandbox]
                      ELSE [ok |-> TRUE, abs |-> absPath, err |-> ""]

NoCall == [op |-> "none", nargs |-> 0, args |-> <<>>, result |-> [shape |-> "none"], log |-> <<>>]

Idle == ~vp.called /\ fcall.op = "none"

\* SetAllowedDownloadDirs(dirs): the list is stored as given.
SetAllowedDownloadDirs(dirs) ==
    /\ Idle
    /\ allowedDownloadDirs' = dirs
    /\ UNCHANGED <<filePerm, dataDir, vp, fcall, cacheVars, indexVars, restVars>>

\* AddAllowedDownloadDir(dir): the directory is resolved, then appended.
AddAllowedDownloadDir(dir) ==
    /\ Idle
    /\ Len(allowedDownloadDirs) < MaxDirs
    /\ allowedDownloadDirs' = Append(allowedDownloadDirs, Abs(dir))
    /\ UNCHANGED <<filePerm, dataDir, vp, fcall, cacheVars, indexVars, restVars>>

\* A call of validatePath(path); vp holds its input and result until the caller takes it.
ValidatePathCall ==
    /\ Idle
    /\ \E path \in Strings(MaxLen) :
           vp' = [called |-> TRUE, path |-> path] @@ validatePath(path)
    /\ UNCHANGED <<allowedDownloadDirs, filePerm, dataDir, fcall, cacheVars, indexVars, restVars>>

\* The caller takes the result.
ValidatePathReturn ==
    /\ vp.called
    /\ vp' = NoVp
    /\ UNCHANGED <<allowedDownloadDirs, filePerm, dataDir, fcall, cacheVars, indexVars, restVars>>

(***************************************************************************)
(* Script-facing file operations                                           *)
(* Each handler is a function of its arguments and of the outcome of every *)
(* call it makes into the operating system or the network; it yields the   *)
(* value returned to the script and the ordered log of the calls it made.  *)
(***************************************************************************)
\* Most body chunks a response delivers.
MaxChunks == 2

\* Path arguments scripts pass to the file operations: inside the data
\* directory, above it, absolute below /b, absolute elsewhere.
FilePaths == { <<"a">>, <<".", ".">>, <<"/", "b", "/", "a">>, <<"/", "a">> }

\* URLs passed to download, by their host.
Urls == { [host |-> "cdn.example"], [host |-> "evil.example"] }

\* manifest.Permissions.Network: the allowed-domain list of the manifest.
ManifestDomains == { "cdn.example" }

\* Calls that reach the file system, and calls that reach the network.
FsEvents == { "os.Stat", "os.Remove", "os.ReadFile", "os.MkdirAll", "os.WriteFile",
              "os.Rename", "os.Create", "File.Write" }
NetEvents == { "httpClient.Do" }

Ev(ev, arg, ok) == [ev |-> ev, arg |-> arg, ok |-> ok]

\* map[string]interface{}{"success": false, "error": msg}
Failure(msg) == [shape |-> "object", success |-> FALSE, error |-> msg]

\* map[string]interface{}{"success": true, ...}
Success(path, size) == [shape |-> "object", success |-> TRUE, error |-> "", path |-> path, size |-> size]

\* r.vm.ToValue(b)
Bool(b) == [shape |-> "bool", value |-> b]

Outcome(result, log) == [result |-> result, log |-> log]

\* ExtensionRuntime.validateDomain: nil exactly when the URL's host is on the manifest's list.
validateDomain(url) ==
    url.host \in ManifestDomains

\* One validatePath call as a log event.
ValidateEv(path) == Ev("validatePath", path, validatePath(path).ok)

\* ExtensionRuntime.fileExists
fileExists(nargs, path, statOk) ==
    IF nargs < 1 THEN Outcome(Bool(FALSE), <<>>)
    ELSE LET v == validatePath(path)
         IN  IF ~v.ok THEN Outcome(Bool(FALSE), <<ValidateEv(path)>>)
             ELSE Outcome(Bool(statOk), <<ValidateEv(path), Ev("os.Stat", v.abs, statOk)>>)

\* fileDelete answering a rejected path with an empty error text: a faulty
\* variant, against which C7 is shown to depend on the text.
fileDeleteNoErrorText(nargs, path, removeOk) ==
    IF nargs < 1 THEN Outcome(Failure("path is required"), <<>>)
    ELSE LET v == validatePath(path)
         IN  IF ~v.ok THEN Outcome(Failure(""), <<ValidateEv(path)>>)
             ELSE IF ~removeOk
                  THEN Outcome(Failure("remove: operation failed"),
                               <<ValidateEv(path), Ev("os.Remove", v.abs, FALSE)>>)
                  ELSE Outcome(Success(<<>>, 0), <<ValidateEv(path), Ev("os.Remove", v.abs, TRUE)>>)

\* ExtensionRuntime.fileDelete
fileDelete(nargs, path, removeOk) ==
    IF nargs < 1 THEN Outcome(Failure("path is required"), <<>>)
    ELSE LET v == validatePath(path)
         IN  IF ~v.ok THEN Outcome(Failure(v.err), <<ValidateEv(path)>>)
             ELSE IF ~removeOk
                  THEN Outcome(Failure("remove: operation failed"),
                               <<ValidateEv(path), Ev("os.Remove", v.abs, FALSE)>>)
                  ELSE Outcome(Success(<<>>, 0), <<ValidateEv(path), Ev("os.Remove", v.abs, TRUE)>>)

\* ExtensionRuntime.fileRead
fileRead(nargs, path, readOk) ==
    IF nargs < 1 THEN Outcome(Failure("path is required"), <<>>)
    ELSE LET v == validatePath(path)
         IN  IF ~v.ok THEN Outcome(Failure(v.err), <<ValidateEv(path)>>)
             ELSE IF ~readOk
                  THEN Outcome(Failure("open: operation failed"),
                               <<ValidateEv(path), Ev("os.ReadFile", v.abs, FALSE)>>)
                  ELSE Outcome(Success(<<>>, 0), <<ValidateEv(path), Ev("os.ReadFile", v.abs, TRUE)>>)

\* ExtensionRuntime.fileWrite
fileWrite(nargs, path, mkdirOk, writeOk) ==
    IF nargs < 2 THEN Outcome(Failure("path and data are required"), <<>>)
    ELSE LET v == validatePath(path)
             l1 == <<ValidateEv(path)>>
             l2 == Append(l1, Ev("os.MkdirAll", v.abs, mkdirOk))
             l3 == Append(l2, Ev("os.WriteFile", v.abs, writeOk))
         IN  IF ~v.ok THEN Outcome(Failure(v.err), l1)
             ELSE IF ~mkdirOk THEN Outcome(Failure("failed to create directory"), l2)
             ELSE IF ~writeOk THEN Outcome(Failure("write: operation failed"), l3)
             ELSE Outcome(Success(v.abs, 0), l3)

\* fileCopy reading the source before the destination is validated: a faulty
\* variant, against which C5 is shown to depend on the order.
fileCopyReadsSourceFirst(nargs, srcPath, dstPath, readOk, mkdirOk, writeOk) ==
    IF nargs < 2 THEN Outcome(Failure("source and destination paths are required"), <<>>)
    ELSE LET vs == validatePath(srcPath)
             vd == validatePath(dstPath)
             l1 == <<ValidateEv(srcPath)>>
             l2 == Append(l1, Ev("os.ReadFile", vs.abs, readOk))
             l3 == Append(l2, ValidateEv(dstPath))
             l4 == Append(l3, Ev("os.MkdirAll", vd.abs, mkdirOk))
             l5 == Append(l4, Ev("os.WriteFile", vd.abs, writeOk))
         IN  IF ~vs.ok THEN Outcome(Failure(vs.err), l1)
             ELSE IF ~readOk THEN Outcome(Failure("failed to read source"), l2)
             ELSE IF ~vd.ok THEN Outcome(Failure(vd.err), l3)
             ELSE IF ~mkdirOk THEN Outcome(Failure("failed to create directory"), l4)
             ELSE IF ~writeOk THEN Outcome(Failure("failed to write destination"), l5)
             ELSE Outcome(Success(vd.abs, 0), l5)

\* ExtensionRuntime.fileCopy
fileCopy(nargs, srcPath, dstPath, readOk, mkdirOk, writeOk) ==
    IF nargs < 2 THEN Outcome(Failure("source and destination paths are required"), <<>>)
    ELSE LET vs == validatePath(srcPath)
             vd == validatePath(dstPath)
             l1 == <<ValidateEv(srcPath)>>
             l2 == Append(l1, ValidateEv(dstPath))
             l3 == Append(l2, Ev("os.ReadFile", vs.abs, readOk))
             l4 == Append(l3, Ev("os.MkdirAll", vd.abs, mkdirOk))
             l5 == Append(l4, Ev("os.WriteFile", vd.abs, writeOk))
         IN  IF ~vs.ok THEN Outcome(Failure(vs.err), l1)
             ELSE IF ~vd.ok THEN Outcome(Failure(vd.err), l2)
             ELSE IF ~readOk THEN Outcome(Failure("failed to read source"), l3)
             ELSE IF ~mkdirOk THEN Outcome(Failure("failed to create directory"), l4)
             ELSE IF ~writeOk THEN Outcome(Failure("failed to write destination"), l5)
             ELSE Outcome(Success(vd.abs, 0), l5)

\* ExtensionRuntime.fileMove
fileMove(nargs, srcPath, dstPath, mkdirOk, renameOk) ==
    IF nargs < 2 THEN Outcome(Failure("source and destination paths are required"), <<>>)
    ELSE LET vs == validatePath(srcPath)
             vd == validatePath(dstPath)
             l1 == <<ValidateEv(srcPath)>>
             l2 == Append(l1, ValidateEv(dstPath))
             l3 == Append(l2, Ev("os.MkdirAll", vd.abs, mkdirOk))
             l4 == Append(l3, Ev("os.Rename", vs.abs, renameOk))
         IN  IF ~vs.ok THEN Outcome(Failure(vs.err), l1)
             ELSE IF ~vd.ok THEN Outcome(Failure(vd.err), l2)
             ELSE IF ~mkdirOk THEN Outcome(Failure("failed to create directory"), l3)
             ELSE IF ~renameOk THEN Outcome(Failure("failed to move file"), l4)
             ELSE Outcome(Success(vd.abs, 0), l4)

\* ExtensionRuntime.fileGetSize
fileGetSize(nargs, path, statOk) ==
    IF nargs < 1 THEN Outcome(Failure("path is required"), <<>>)
    ELSE LET v == validatePath(path)
         IN  IF ~v.ok THEN Outcome(Failure(v.err), <<ValidateEv(path)>>)
             ELSE IF ~statOk
                  THEN Outcome(Failure("stat: operation failed"),
                               <<ValidateEv(path), Ev("os.Stat", v.abs, FALSE)>>)
                  ELSE Outcome(Success(<<>>, 0), <<ValidateEv(path), Ev("os.Stat", v.abs, TRUE)>>)

\* Lengths of the chunks a body read delivers (at most the 32 KiB buffer).
ChunkSizes == {1, 2}

\* resp.Body as the sequence of results of its Read calls: chunks with a nil
\* error, then one last read that reports io.EOF or a failure.
Bodies ==
    { chunks \o <<last>> :
        chunks \in UNION {[1..k -> {[nr |-> c, er |-> "nil"] : c \in ChunkSizes}] : k \in 0..MaxChunks},
        last \in {[nr |-> 0, er |-> "EOF"], [nr |-> 1, er |-> "EOF"], [nr |-> 0, er |-> "err"]} }

RECURSIVE BodyLength(_)
BodyLength(reads) ==
    IF reads = <<>> THEN 0 ELSE Head(reads).nr + BodyLength(Tail(reads))

\* What the operating system and the server do during one download.
\*   stage: the first call that fails ("none": every call before the body succeeds)
\*   reads: the body; writeFailAt: index of the read whose write fails (0: none)
\*   writeFault: how it fails: with an error, with a count above the bytes
\*   given, or storing fewer bytes than given without an error
WriteFaults == {"error", "invalid", "short"}

DownloadEnvs ==
    { [stage |-> st, hasProgress |-> FALSE, contentLength |-> 0 - 1, reads |-> <<>>,
       writeFailAt |-> 0, writeFault |-> "none"] :
        st \in {"mkdir", "request", "do", "status", "create"} }
    \cup
    UNION { { [stage |-> "none", hasProgress |-> hp, contentLength |-> cl, reads |-> rd,
               writeFailAt |-> w.at, writeFault |-> w.fault] :
                hp \in BOOLEAN, cl \in {0 - 1, BodyLength(rd)},
                w \in {[at |-> 0, fault |-> "none"]} \cup [at : 1..Len(rd), fault : WriteFaults] } :
            rd \in Bodies }

\* out.Write(buf[0:nr]) as the environment has it: the count and the error.
outWrite(env, i, nr) ==
    IF env.writeFailAt # i THEN [nw |-> nr, ew |-> "nil"]
    ELSE CASE env.writeFault = "error" -> [nw |-> 0, ew |-> "err"]
           [] env.writeFault = "invalid" -> [nw |-> nr + 1, ew |-> "nil"]
           [] env.writeFault = "short" -> [nw |-> nr - 1, ew |-> "nil"]

\* nw and ew after `if nw < 0 || nr < nw`
Checked(w, nr) ==
    IF w.nw < 0 \/ nr < w.nw
    THEN [nw |-> 0, ew |-> IF w.ew = "nil" THEN "invalid write result" ELSE w.ew]
    ELSE w

\* The copy loop going on after a write that stored fewer bytes than were
\* read: a faulty variant, against which C33 is shown to depend on the
\* test `nr != nw`.
RECURSIVE copyBodyIgnoresShortWrite(_, _, _, _, _)
copyBodyIgnoresShortWrite(env, i, written, log, fullPath) ==
    LET rd == env.reads[i]
        w == Checked(outWrite(env, i, rd.nr), rd.nr)
        total == IF rd.nr > 0 THEN written + w.nw ELSE written
        lw == IF rd.nr > 0
              THEN Append(log, Ev("File.Write", [nr |-> rd.nr, nw |-> w.nw], w.ew = "nil"))
              ELSE log
        lp == IF rd.nr > 0 /\ env.hasProgress /\ env.contentLength > 0
              THEN Append(lw, Ev("onProgress", [written |-> total, total |-> env.contentLength], TRUE))
              ELSE lw
    IN  IF i > Len(env.reads) THEN Outcome(Failure("failed to read response"), log)
        ELSE IF rd.nr > 0 /\ w.ew # "nil" THEN Outcome(Failure("failed to write file"), lw)
        ELSE IF rd.er = "err" THEN Outcome(Failure("failed to read response"), lp)
        ELSE IF rd.er = "EOF" THEN Outcome(Success(fullPath, total), lp)
        ELSE copyBodyIgnoresShortWrite(env, i + 1, total, lp, fullPath)

\* The copy loop of fileDownload from read number i on.
RECURSIVE copyBody(_, _, _, _, _)
copyBody(env, i, written, log, fullPath) ==
    LET rd == env.reads[i]
        w == Checked(outWrite(env, i, rd.nr), rd.nr)
        total == IF rd.nr > 0 THEN written + w.nw ELSE written
        lw == IF rd.nr > 0
              THEN Append(log, Ev("File.Write", [nr |-> rd.nr, nw |-> w.nw], w.ew = "nil"))
              ELSE log
        lp == IF rd.nr > 0 /\ env.hasProgress /\ env.contentLength > 0
              THEN Append(lw, Ev("onProgress", [written |-> total, total |-> env.contentLength], TRUE))
              ELSE lw
    IN  IF i > Len(env.reads) THEN Outcome(Failure("failed to read response"), log)
        ELSE IF rd.nr > 0 /\ w.ew # "nil" THEN Outcome(Failure("failed to write file"), lw)
        ELSE IF rd.nr > 0 /\ rd.nr # w.nw THEN Outcome(Failure("short write"), lw)
        ELSE IF rd.er = "err" THEN Outcome(Failure("failed to read response"), lp)
        ELSE IF rd.er = "EOF" THEN Outcome(Success(fullPath, total), lp)
        ELSE copyBody(env, i + 1, total, lp, fullPath)

\* fileDownload validating the output path before the domain: a faulty
\* variant, against which C6 is shown to depend on the order.
fileDownloadResolvesPathFirst(nargs, url, outputPath, env) ==
    IF nargs < 2 THEN Outcome(Failure("URL and output path are required"), <<>>)
    ELSE LET v == validatePath(outputPath)
             l0 == <<ValidateEv(outputPath)>>
             l1 == Append(l0, Ev("os.MkdirAll", v.abs, env.stage # "mkdir"))
             l2 == Append(l1, Ev("validateDomain", url, validateDomain(url)))
             l3 == Append(l2, Ev("httpClient.Do", url, env.stage # "do"))
             l4 == Append(l3, Ev("os.Create", v.abs, env.stage # "create"))
         IN  IF ~v.ok THEN Outcome(Failure(v.err), l0)
             ELSE IF env.stage = "mkdir" THEN Outcome(Failure("failed to create directory"), l1)
             ELSE IF ~validateDomain(url) THEN Outcome(Failure("domain not allowed"), l2)
             ELSE IF env.stage = "request" THEN Outcome(Failure("invalid request"), l2)
             ELSE IF env.stage = "do" THEN Outcome(Failure("request failed"), l3)
             ELSE IF env.stage = "status" THEN Outcome(Failure("HTTP error"), l3)
             ELSE IF env.stage = "create" THEN Outcome(Failure("failed to create file"), l4)
             ELSE copyBody(env, 1, 0, l4, v.abs)

\* ExtensionRuntime.fileDownload
fileDownload(nargs, url, outputPath, env) ==
    IF nargs < 2 THEN Outcome(Failure("URL and output path are required"), <<>>)
    ELSE LET v == validatePath(outputPath)
             l0 == <<Ev("validateDomain", url, validateDomain(url))>>
             l1 == Append(l0, ValidateEv(outputPath))
             l2 == Append(l1, Ev("os.MkdirAll", v.abs, env.stage # "mkdir"))
             l3 == Append(l2, Ev("httpClient.Do", url, env.stage # "do"))
             l4 == Append(l3, Ev("os.Create", v.abs, env.stage # "create"))
         IN  IF ~validateDomain(url) THEN Outcome(Failure("domain not allowed"), l0)
             ELSE IF ~v.ok THEN Outcome(Failure(v.err), l1)
             ELSE IF env.stage = "mkdir" THEN Outcome(Failure("failed to create directory"), l2)
             ELSE IF env.stage = "request" THEN Outcome(Failure("invalid request"), l2)
             ELSE IF env.stage = "do" THEN Outcome(Failure("request failed"), l3)
             ELSE IF env.stage = "status" THEN Outcome(Failure("HTTP error"), l3)
             ELSE IF env.stage = "create" THEN Outcome(Failure("failed to create file"), l4)
             ELSE copyBody(env, 1, 0, l4, v.abs)

(***************************************************************************)
(* A script calls one file operation at a time; fcall holds the call, its  *)
(* result and its log until the script takes the result.                   *)
(***************************************************************************)
Called(op, nargs, args, out) ==
    fcall' = [op |-> op, nargs |-> nargs, args |-> args, result |-> out.result, log |-> out.log]

sandboxConfig == <<allowedDownloadDirs, filePerm, dataDir, vp>>

FileExists ==
    /\ Idle
    /\ \E nargs \in 0..1, path \in FilePaths, statOk \in BOOLEAN :
           Called("exists", nargs, <<path>>, fileExists(nargs, path, statOk))
    /\ UNCHANGED <<sandboxConfig, cacheVars, indexVars, restVars>>

FileDelete ==
    /\ Idle
    /\ \E nargs \in 0..1, path \in FilePaths, removeOk \in BOOLEAN :
           Called("delete", nargs, <<path>>, fileDelete(nargs, path, removeOk))
    /\ UNCHANGED <<sandboxConfig, cacheVars, indexVars, restVars>>

FileRead ==
    /\ Idle
    /\ \E nargs \in 0..1, path \in FilePaths, readOk \in BOOLEAN :
           Called("read", nargs, <<path>>, fileRead(nargs, path, readOk))
    /\ UNCHANGED <<sandboxConfig, cacheVars, indexVars, restVars>>

FileWrite ==
    /\ Idle
    /\ \E nargs \in 1..2, path \in FilePaths, mkdirOk \in BOOLEAN, writeOk \in BOOLEAN :
           Called("write", nargs, <<path>>, fileWrite(nargs, path, mkdirOk, writeOk))
    /\ UNCHANGED <<sandboxConfig, cacheVars, indexVars, restVars>>

FileCopy ==
    /\ Idle
    /\ \E nargs \in 1..2, srcPath \in FilePaths, dstPath \in FilePaths,
          readOk \in BOOLEAN, mkdirOk \in BOOLEAN, writeOk \in BOOLEAN :
           Called("copy", nargs, <<srcPath, dstPath>>,
                  fileCopy(nargs, srcPath, dstPath, readOk, mkdirOk, writeOk))
    /\ UNCHANGED <<sandboxConfig, cacheVars, indexVars, restVars>>

FileMove ==
    /\ Idle
    /\ \E nargs \in 1..2, srcPath \in FilePaths, dstPath \in FilePaths,
          mkdirOk \in BOOLEAN, renameOk \in BOOLEAN :
           Called("move", nargs, <<srcPath, dstPath>>,
                  fileMove(nargs, srcPath, dstPath, mkdirOk, renameOk))
    /\ UNCHANGED <<sandboxConfig, cacheVars, indexVars, restVars>>

FileGetSize ==
    /\ Idle
    /\ \E nargs \in 0..1, path \in FilePaths, statOk \in BOOLEAN :
           Called("getSize", nargs, <<path>>, fileGetSize(nargs, path, statOk))
    /\ UNCHANGED <<sandboxConfig, cacheVars, indexVars, restVars>>

FileDownload ==
    /\ Idle
    /\ \E nargs \in 1..2, url \in Urls, outputPath \in FilePaths, env \in DownloadEnvs :
           Called("download", nargs, <<outputPath>>, fileDownload(nargs, url, outputPath, env))
    /\ UNCHANGED <<sandboxConfig, cacheVars, indexVars, restVars>>

\* The script takes the result.
FileReturn ==
    /\ fcall.op # "none"
    /\ fcall' = NoCall
    /\ UNCHANGED <<sandboxConfig, cacheVars, indexVars, restVars>>

SandboxInit ==
    /\ allowedDownloadDirs = <<>>
    /\ filePerm \in BOOLEAN
    /\ dataDir \in DataDirs
    /\ vp = NoVp
    /\ fcall = NoCall

CacheIdleInit ==
    /\ now = 0
    /\ cache = [k \in {} |-> k]
    /\ lastCleanup = 0
    /\ lastCleanupIsZero = TRUE
    /\ pc = <<>>
    /\ getLocal = <<>>
    /\ ret = <<>>

\* No script runs, nothing is pre-warmed, fetched or requested.
RestIdleInit ==
    /\ run = <<>>
    /\ warm = <<>>
    /\ fetch = <<>>
    /\ req = <<>>

IndexIdleInit ==
    /\ disk = <<>>
    /\ heap = <<>>
    /\ isrcIndexCache = <<>>
    /\ buildLock = <<>>
    /\ ipc = <<>>
    /\ ilocal = <<>>
    /\ iret = <<>>

\* Directory lists the host has registered when the first script runs.
RegisteredAtStart == { <<>>, << <<"/", "b">> >> }

PathInit == SandboxInit /\ CacheIdleInit /\ IndexIdleInit /\ RestIdleInit

PathNext ==
    \/ \E dirs \in DirLists : SetAllowedDownloadDirs(dirs)
    \/ \E dir \in DirInputs : AddAllowedDownloadDir(dir)
    \/ ValidatePathCall
    \/ ValidatePathReturn

\* The sandbox policy: the host registers directories in any way the two
\* registration calls allow, and validatePath is called on any path.
PathSpec == PathInit /\ [][PathNext]_vars

FileInit ==
    /\ allowedDownloadDirs \in RegisteredAtStart
    /\ filePerm \in BOOLEAN
    /\ dataDir \in DataDirs
    /\ vp = NoVp
    /\ fcall = NoCall
    /\ CacheIdleInit
    /\ IndexIdleInit
    /\ RestIdleInit

FileNext ==
    \/ \E dir \in DirInputs : AddAllowedDownloadDir(dir)
    \/ ValidatePathCall
    \/ ValidatePathReturn
    \/ FileExists
    \/ FileDelete
    \/ FileRead
    \/ FileWrite
    \/ FileCopy
    \/ FileMove
    \/ FileGetSize
    \/ FileDownload
    \/ FileReturn

\* The script-facing file API: the host has registered its directories (and
\* may add more), a script calls one file operation at a time.
FileSpec == FileInit /\ [][FileNext]_vars

(***************************************************************************)
(* Properties of the sandbox policy and of the file operations             *)
(***************************************************************************)
\* A registered directory or the data directory, as the location it designates.
SandboxRoots ==
    {Abs(dataDir)} \cup {Abs(allowedDownloadDirs[i]) : i \in 1..Len(allowedDownloadDirs)}

\* C1 (as claimed; refuted under PathSpec): whenever validatePath succeeds,
\* the absolute path it returns is the data directory, a registered allowed
\* directory, or a location below one of them; a sibling whose name only
\* starts with the directory's name is outside.
C1_ValidatedPathStaysInside ==
    (vp.called /\ vp.ok) => \E root \in SandboxRoots : Within(vp.abs, root)

\* C2 (as claimed; refuted under PathSpec): a relative path that, joined
\* under the data directory and resolved, designates a location that is
\* neither the data directory nor below it, is rejected by validatePath.
C2_EscapingRelativePathRejected ==
    (/\ vp.called
     /\ ~IsAbs(vp.path)
     /\ ~Within(Abs(Join(dataDir, Clean(vp.path))), Abs(dataDir)))
    => ~vp.ok

\* C3 (as claimed; refuted under PathSpec): with the file capability, an
\* absolute path is accepted exactly when some registered directory, resolved
\* to absolute form, is a prefix of the path's resolved form.
C3_AbsoluteAcceptedIffUnderResolvedDir ==
    (vp.called /\ filePerm /\ IsAbs(vp.path))
    => (vp.ok <=> \E i \in 1..Len(allowedDownloadDirs) :
                      HasPrefix(Abs(vp.path), Abs(allowedDownloadDirs[i])))

Rejected(log) ==
    \E i \in DOMAIN log : log[i].ev = "validatePath" /\ ~log[i].ok

FsAccesses(log) ==
    {i \in DOMAIN log : log[i].ev \in FsEvents}

Validations(log) ==
    {i \in DOMAIN log : log[i].ev = "validatePath"}

IsValidation(e) == e.ev = "validatePath"

\* Number of path arguments of a file operation.
PathArity(op) ==
    IF op \in {"copy", "move"} THEN 2 ELSE 1

\* C4: without the file capability validatePath fails for every path, and no
\* file operation reaches the file system.
C4_NoFileCapabilityNoAccess ==
    ~filePerm =>
        /\ vp.called => ~vp.ok
        /\ fcall.op # "none" =>
               /\ \A i \in Validations(fcall.log) : ~fcall.log[i].ok
               /\ FsAccesses(fcall.log) = {}

\* A write to a path below a registered directory, refused for lack of the capability.
C4_Witness ==
    /\ ~filePerm
    /\ fcall.op = "write"
    /\ fcall.nargs = 2
    /\ fcall.args[1] = <<"/", "b", "/", "a">>
    /\ allowedDownloadDirs = << <<"/", "b">> >>
    /\ Rejected(fcall.log)

\* C5: a file operation reaches the file system only after it has validated
\* every one of its path arguments, in order, and all were accepted; when a
\* validation fails, the operation makes no file system call at all.
C5_ValidationPrecedesFileAccess ==
    fcall.op # "none" =>
        LET log == fcall.log
            validated == SelectSeq(log, IsValidation)
        IN  /\ \A k \in DOMAIN validated : validated[k].arg = fcall.args[k]
            /\ Rejected(log) => FsAccesses(log) = {}
            /\ FsAccesses(log) # {} =>
                   /\ Len(validated) = PathArity(fcall.op)
                   /\ \A i \in Validations(log), j \in FsAccesses(log) : i < j

\* A copy whose source is accepted and whose destination is rejected: the source is not read.
C5_Witness ==
    /\ fcall.op = "copy"
    /\ Len(fcall.log) = 2
    /\ fcall.log[1].ok
    /\ ~fcall.log[2].ok

\* C6: download checks the URL's domain first; when the domain is not
\* allowed nothing else happens (no path is resolved, no directory or file is
\* created, no request is sent); when the destination is rejected no
\* directory is created and no request is sent.
C6_DownloadChecksDomainFirst ==
    (fcall.op = "download" /\ fcall.nargs >= 2) =>
        LET log == fcall.log
        IN  /\ Len(log) >= 1
            /\ log[1].ev = "validateDomain"
            /\ ~log[1].ok => Len(log) = 1
            /\ Rejected(log) =>
                   \A j \in DOMAIN log : log[j].ev \notin (FsEvents \cup NetEvents)

\* A download from a host that is not allowed, to a destination that would be accepted.
C6_Witness ==
    /\ fcall.op = "download"
    /\ fcall.nargs = 2
    /\ Len(fcall.log) = 1
    /\ ~fcall.log[1].ok
    /\ validatePath(fcall.args[1]).ok

TTL == 30
\* cleanupInterval: 5 * time.Minute
CleanupInterval == 5
\* Last minute of the clock.
MaxTime == 40

\* strings.ToUpper on one character
UpperChar(c) ==
    CASE c = "u" -> "U"
      [] c = "s" -> "S"
      [] OTHER -> c

\* strings.ToUpper
ToUpper(str) ==
    [i \in DOMAIN str |-> UpperChar(str[i])]

\* Recording identifiers callers pass: one identifier in two letter cases.
ISRCs == { <<"u", "s", "1">>, <<"U", "S", "1">> }

Tasks == {"t1", "t2"}

\* Catalog ids the resolvers deliver.
TrackIDs == {7}
AmazonIDs == {"B0"}

\* Amounts by which the clock advances between steps.
TickSteps == {CleanupInterval, TTL}

\* &TrackIDCacheEntry{}
ZeroEntry == [TidalTrackID |-> 0, QobuzTrackID |-> 0, AmazonTrackID |-> "", ExpiresAt |-> 0]

\* now.After(t)
After(t1, t2) == t1 > t2

\* pruneExpiredLocked with the comparison turned round, deleting the live
\* entries: a faulty variant, against which C11 is shown to depend on it.
pruneLiveLocked(m, t) ==
    [k \in {x \in DOMAIN m : ~After(m[x].ExpiresAt, t)} |-> m[k]]

\* TrackIDCache.pruneExpiredLocked applied to map m
pruneExpiredLocked(m, t) ==
    [k \in {x \in DOMAIN m : ~After(t, m[x].ExpiresAt)} |-> m[k]]

\* The sweep on every call of a setter: a faulty variant, against which
\* C29 is shown to depend on the test of the time of the last sweep.
SweepOnEveryCall ==
    CleanupInterval > 0

\* The condition under which a setter sweeps.
SweepDue ==
    CleanupInterval > 0 /\ (lastCleanupIsZero \/ now - lastCleanup >= CleanupInterval)

\* The part the three setters share: entry is the updated entry of isrc.
Upsert(isrc, entry) ==
    LET written == [k \in DOMAIN cache \cup {isrc} |->
                       IF k = isrc THEN [entry EXCEPT !.ExpiresAt = now + TTL] ELSE cache[k]]
    IN  IF SweepDue
        THEN /\ cache' = pruneExpiredLocked(written, now)
             /\ lastCleanup' = now
             /\ lastCleanupIsZero' = FALSE
        ELSE /\ cache' = written
             /\ UNCHANGED <<lastCleanup, lastCleanupIsZero>>

\* A new entry made on every call of a setter: a faulty variant, against
\* which C30 is shown to depend on the entry found in the map.
EntryAlwaysZero(isrc) ==
    ZeroEntry

\* entry, exists := c.cache[isrc]; a new entry if there is none
EntryOrZero(isrc) ==
    IF isrc \in DOMAIN cache THEN cache[isrc] ELSE ZeroEntry

\* What a call hands back to its caller; ret holds it until the caller takes
\* it. via tells which path of Get returned: the key was absent, the entry
\* was live, or the entry was seen expired under the read lock.
Returned(t, op, isrc) ==
    [task |-> t, op |-> op, isrc |-> isrc, via |-> "", found |-> FALSE, entry |-> ZeroEntry,
     evalTime |-> now, size |-> 0]

NoReturn ==
    [task |-> "", op |-> "none", isrc |-> <<>>, via |-> "", found |-> FALSE, entry |-> ZeroEntry,
     evalTime |-> 0, size |-> 0]

\* Task t can take its next step: no returned value is waiting to be taken.
Ready(t, at) == ret = NoReturn /\ pc[t] = at

\* TrackIDCache.SetTidal
SetTidal(t, isrc, trackID) ==
    /\ Ready(t, "idle")
    /\ Upsert(isrc, [EntryOrZero(isrc) EXCEPT !.TidalTrackID = trackID])
    /\ UNCHANGED <<now, pc, getLocal, ret, sandboxVars, restVars, indexVars>>

\* TrackIDCache.SetQobuz
SetQobuz(t, isrc, trackID) ==
    /\ Ready(t, "idle")
    /\ Upsert(isrc, [EntryOrZero(isrc) EXCEPT !.QobuzTrackID = trackID])
    /\ UNCHANGED <<now, pc, getLocal, ret, sandboxVars, restVars, indexVars>>

\* TrackIDCache.SetAmazon
SetAmazon(t, isrc, trackID) ==
    /\ Ready(t, "idle")
    /\ Upsert(isrc, [EntryOrZero(isrc) EXCEPT !.AmazonTrackID = trackID])
    /\ UNCHANGED <<now, pc, getLocal, ret, sandboxVars, restVars, indexVars>>

\* Get returning whatever entry the map holds: a faulty variant, against
\* which C8 is shown to depend on the test of the expiry.
GetReadIgnoresExpiry(t, isrc) ==
    /\ Ready(t, "idle")
    /\ IF isrc \notin DOMAIN cache
       THEN /\ ret' = [Returned(t, "Get", isrc) EXCEPT !.via = "absent"]
            /\ UNCHANGED <<pc, getLocal>>
       ELSE /\ ret' = [Returned(t, "Get", isrc) EXCEPT !.via = "live", !.found = TRUE, !.entry = cache[isrc]]
            /\ UNCHANGED <<pc, getLocal>>
    /\ UNCHANGED <<now, cache, lastCleanup, lastCleanupIsZero, sandboxVars, restVars, indexVars>>

\* TrackIDCache.Get, the section under the read lock and the return that
\* follows it: not found, the entry, or on to the write-locked section.
GetRead(t, isrc) ==
    /\ Ready(t, "idle")
    /\ IF isrc \notin DOMAIN cache
       THEN /\ ret' = [Returned(t, "Get", isrc) EXCEPT !.via = "absent"]
            /\ UNCHANGED <<pc, getLocal>>
       ELSE IF ~After(now, cache[isrc].ExpiresAt)
            THEN /\ ret' = [Returned(t, "Get", isrc) EXCEPT !.via = "live", !.found = TRUE, !.entry = cache[isrc]]
                 /\ UNCHANGED <<pc, getLocal>>
            ELSE /\ pc' = [pc EXCEPT ![t] = "get_lock"]
                 /\ getLocal' = [getLocal EXCEPT ![t] = isrc]
                 /\ UNCHANGED ret
    /\ UNCHANGED <<now, cache, lastCleanup, lastCleanupIsZero, sandboxVars, restVars, indexVars>>

\* Get deleting under the write lock whatever the key holds by then, without
\* testing the expiry again: a faulty variant, against which C35 is shown
\* to depend on the repeated test.
GetDeleteUnchecked(t) ==
    /\ Ready(t, "get_lock")
    /\ LET isrc == getLocal[t]
       IN  /\ cache' = [k \in DOMAIN cache \ {isrc} |-> cache[k]]
           /\ ret' = [Returned(t, "Get", isrc) EXCEPT !.via = "expired"]
    /\ pc' = [pc EXCEPT ![t] = "idle"]
    /\ getLocal' = [getLocal EXCEPT ![t] = <<>>]
    /\ UNCHANGED <<now, lastCleanup, lastCleanupIsZero, sandboxVars, restVars, indexVars>>

\* TrackIDCache.Get, the section under the write lock: the entry is looked
\* up again and deleted if it is (still) expired; Get returns not found.
GetDelete(t) ==
    /\ Ready(t, "get_lock")
    /\ LET isrc == getLocal[t]
       IN  /\ IF isrc \in DOMAIN cache /\ After(now, cache[isrc].ExpiresAt)
              THEN cache' = [k \in DOMAIN cache \ {isrc} |-> cache[k]]
              ELSE UNCHANGED cache
           /\ ret' = [Returned(t, "Get", isrc) EXCEPT !.via = "expired"]
    /\ pc' = [pc EXCEPT ![t] = "idle"]
    /\ getLocal' = [getLocal EXCEPT ![t] = <<>>]
    /\ UNCHANGED <<now, lastCleanup, lastCleanupIsZero, sandboxVars, restVars, indexVars>>

\* TrackIDCache.Clear
Clear(t) ==
    /\ Ready(t, "idle")
    /\ cache' = [k \in {} |-> k]
    /\ UNCHANGED <<now, lastCleanup, lastCleanupIsZero, pc, getLocal, ret, sandboxVars, restVars, indexVars>>

\* TrackIDCache.Size
Size(t) ==
    /\ Ready(t, "idle")
    /\ ret' = [Returned(t, "Size", <<>>) EXCEPT !.size = Cardinality(DOMAIN cache)]
    /\ UNCHANGED <<now, cache, lastCleanup, lastCleanupIsZero, pc, getLocal, sandboxVars, restVars, indexVars>>

\* Time passes.
Tick(d) ==
    /\ ret = NoReturn
    /\ now + d <= MaxTime
    /\ now' = now + d
    /\ UNCHANGED <<cache, lastCleanup, lastCleanupIsZero, pc, getLocal, ret, sandboxVars, restVars, indexVars>>

\* The caller takes the returned value.
TakeReturn ==
    /\ ret # NoReturn
    /\ ret' = NoReturn
    /\ UNCHANGED <<now, cache, lastCleanup, lastCleanupIsZero, pc, getLocal, sandboxVars, restVars, indexVars>>

\* GetTrackIDCache: the cache as created, once.
CacheInit ==
    /\ now = 0
    /\ cache = [k \in {} |-> k]
    /\ lastCleanup = 0
    /\ lastCleanupIsZero = TRUE
    /\ pc = [t \in Tasks |-> "idle"]
    /\ getLocal = [t \in Tasks |-> <<>>]
    /\ ret = NoReturn

SandboxIdleInit ==
    /\ allowedDownloadDirs = <<>>
    /\ filePerm = FALSE
    /\ dataDir = <<"/", "a">>
    /\ vp = NoVp
    /\ fcall = NoCall

CacheSpecInit == CacheInit /\ SandboxIdleInit /\ IndexIdleInit /\ RestIdleInit

CacheNext ==
    \/ \E t \in Tasks, isrc \in ISRCs, id \in TrackIDs : SetTidal(t, isrc, id)
    \/ \E t \in Tasks, isrc \in ISRCs, id \in TrackIDs : SetQobuz(t, isrc, id)
    \/ \E t \in Tasks, isrc \in ISRCs, id \in AmazonIDs : SetAmazon(t, isrc, id)
    \/ \E t \in Tasks, isrc \in ISRCs : GetRead(t, isrc)
    \/ \E t \in Tasks : GetDelete(t)
    \/ \E t \in Tasks : Clear(t)
    \/ \E t \in Tasks : Size(t)
    \/ \E d \in TickSteps : Tick(d)
    \/ TakeReturn

\* The track identifier cache used by concurrent tasks while time passes.
CacheSpec == CacheSpecInit /\ [][CacheNext]_vars

(***************************************************************************)
(* Properties of the track identifier cache                                *)
(***************************************************************************)
\* C8: Get never returns an entry whose expiry lies before the time at which
\* Get evaluated it; an entry it saw expired is answered with not-found.
C8_GetNeverReturnsExpired ==
    ret.op = "Get" =>
        /\ ret.found => ~(ret.entry.ExpiresAt < ret.evalTime)
        /\ ret.found => (ret.isrc \in DOMAIN cache /\ ret.entry = cache[ret.isrc])
        /\ ret.via = "expired" => ~ret.found

\* Get has answered not-found for an entry it saw expired, and has removed it.
C8_Witness ==
    /\ ret.op = "Get"
    /\ ret.via = "expired"
    /\ ~ret.found
    /\ ret.isrc \notin DOMAIN cache
    /\ DOMAIN cache # {}

\* C9 (as claimed; refuted under CacheSpec): identifiers that differ only in
\* letter case are one key of the cache: no two entries are held under case
\* variants of one identifier, and Get does not miss an identifier while an
\* entry is held under a case variant of it.
C9_CacheKeysIgnoreCase ==
    /\ \A k1 \in DOMAIN cache, k2 \in DOMAIN cache : ToUpper(k1) = ToUpper(k2) => k1 = k2
    /\ (ret.op = "Get" /\ ret.via = "absent") =>
           \A k \in DOMAIN cache : ToUpper(k) # ToUpper(ret.isrc)


(***************************************************************************)
(* Concurrent writers of the track identifier cache                        *)
(* Every task resolves its own recording and writes what the three         *)
(* resolvers delivered for it, while any task may call Get.                *)
(***************************************************************************)
\* The recording each writer task works on: pairwise distinct identifiers.
WriterISRC(t) == IF t = "t1" THEN <<"u", "s", "1">> ELSE <<"q", "2">>
WriterISRCs == {WriterISRC(t) : t \in Tasks}

\* What the resolvers deliver for a recording.
TidalIDOf(isrc) == IF isrc = <<"u", "s", "1">> THEN 7 ELSE 8
QobuzIDOf(isrc) == IF isrc = <<"u", "s", "1">> THEN 17 ELSE 18
AmazonIDOf(isrc) == IF isrc = <<"u", "s", "1">> THEN "B0" ELSE "B1"

WritersNext ==
    \/ \E t \in Tasks : SetTidal(t, WriterISRC(t), TidalIDOf(WriterISRC(t)))
    \/ \E t \in Tasks : SetQobuz(t, WriterISRC(t), QobuzIDOf(WriterISRC(t)))
    \/ \E t \in Tasks : SetAmazon(t, WriterISRC(t), AmazonIDOf(WriterISRC(t)))
    \/ \E t \in Tasks, isrc \in WriterISRCs : GetRead(t, isrc)
    \/ \E t \in Tasks : GetDelete(t)
    \/ \E d \in TickSteps : Tick(d)
    \/ TakeReturn

\* Writers of distinct identifiers, readers and the passage of time.
WritersSpec == CacheSpecInit /\ [][WritersNext]_vars

\* The entry of isrc holds nothing but what was delivered for isrc.
HoldsOwnValues(m, isrc) ==
    /\ m[isrc].TidalTrackID \in {0, TidalIDOf(isrc)}
    /\ m[isrc].QobuzTrackID \in {0, QobuzIDOf(isrc)}
    /\ m[isrc].AmazonTrackID \in {"", AmazonIDOf(isrc)}

\* From entry old to entry new nothing that was written has gone.
KeepsValues(old, new) ==
    /\ old.TidalTrackID # 0 => new.TidalTrackID = old.TidalTrackID
    /\ old.QobuzTrackID # 0 => new.QobuzTrackID = old.QobuzTrackID
    /\ old.AmazonTrackID # "" => new.AmazonTrackID = old.AmazonTrackID
    /\ new.ExpiresAt >= old.ExpiresAt

\* One step loses no entry that has not expired and alters none.
NoEntryLostOrAltered ==
    \A isrc \in DOMAIN cache :
        IF isrc \in DOMAIN cache'
        THEN KeepsValues(cache[isrc], cache'[isrc])
        ELSE After(now, cache[isrc].ExpiresAt)

\* C11: concurrent setX calls on pairwise distinct identifiers, interleaved
\* with sweeps and Get calls, leave in each identifier's entry exactly the
\* values written for that identifier: no step writes into, alters or drops
\* the (unexpired) entry of another writer.
C11_DistinctWritersDoNotInterfere ==
    /\ [](\A isrc \in DOMAIN cache : HoldsOwnValues(cache, isrc))
    /\ [][NoEntryLostOrAltered]_vars

\* Both writers have written all three values of their recordings, at
\* different times, and a sweep has run after time had passed.
C11_Witness ==
    /\ DOMAIN cache = WriterISRCs
    /\ \A isrc \in WriterISRCs :
           /\ cache[isrc].TidalTrackID = TidalIDOf(isrc)
           /\ cache[isrc].QobuzTrackID = QobuzIDOf(isrc)
           /\ cache[isrc].AmazonTrackID = AmazonIDOf(isrc)
    /\ \E a \in WriterISRCs, b \in WriterISRCs : cache[a].ExpiresAt < cache[b].ExpiresAt
    /\ ~lastCleanupIsZero /\ lastCleanup > 0

(***************************************************************************)
(* ISRC index of an output directory (ISRCIndex, isrcIndexCache)           *)
(* Index objects live in heap and are known by reference, as *ISRCIndex    *)
(* is: a task may hold an index the cache no longer points to. Every       *)
(* section of code between two lock operations is one step.                *)
(***************************************************************************)
\* isrcIndexTTL: 5 * time.Minute
IsrcIndexTTL == 5
\* Last minute of the clock while the index is exercised.
MaxIndexTime == 10

\* Output directories callers pass; "" is the missing argument.
IndexDirs == {"", "/music"}

\* The files of the output directory, in the order filepath.Walk visits them.
Files == <<"/music/a.flac", "/music/b.flac">>
FileSet == {Files[i] : i \in DOMAIN Files}

\* Identifiers callers pass to the index: "" and one identifier in two cases.
IndexISRCs == ISRCs \cup {<<>>}
\* What a path of the output directory can be: nothing, a zero-length file,
\* or a FLAC file with the ISRC tag its tagger wrote (none, or an identifier
\* in the letter case of the source).
Absent == [kind |-> "absent", isrc |-> <<>>]
DiskStates(path) ==
    IF path = Files[1]
    THEN {Absent, [kind |-> "empty", isrc |-> <<>>], [kind |-> "flac", isrc |-> <<"u", "s", "1">>]}
    ELSE {Absent, [kind |-> "flac", isrc |-> <<>>], [kind |-> "flac", isrc |-> <<"q", "2">>],
          [kind |-> "flac", isrc |-> <<"U", "S", "1">>]}

\* The nil *ISRCIndex
NoIdx == 0
\* References: one index the cache points to and one more per task.
IdxIds == 1..(Cardinality(Tasks) + 1)

EmptyIndex == [k \in {} |-> ""]
\* invalidated is history, not a field of ISRCIndex: InvalidateISRCCache has
\* run for the directory of the index since the walk that filled it began.
NullObj ==
    [live |-> FALSE, index |-> EmptyIndex, outputDir |-> "", buildTime |-> 0,
     invalidated |-> FALSE]

\* m[key] = value on a Go map
Put(m, key, value) ==
    [k \in DOMAIN m \cup {key} |-> IF k = key THEN value ELSE m[k]]

\* ISRCIndex.lookup on the map of an index
lookup(index, isrc) ==
    IF isrc = <<>>
    THEN [path |-> "", exists |-> FALSE]
    ELSE IF ToUpper(isrc) \in DOMAIN index
         THEN [path |-> index[ToUpper(isrc)], exists |-> TRUE]
         ELSE [path |-> "", exists |-> FALSE]

\* ISRCIndex.remove on the map of an index
remove(index, isrc) ==
    IF isrc = <<>>
    THEN index
    ELSE [k \in DOMAIN index \ {ToUpper(isrc)} |-> index[k]]

\* Add storing the identifier as given: a faulty variant, against which C10
\* is shown to depend on the uppercasing.
AddKeepsCase(index, isrc, filePath) ==
    IF isrc = <<>> \/ filePath = ""
    THEN index
    ELSE Put(index, isrc, filePath)

\* ISRCIndex.Add on the map of an index
Add(index, isrc, filePath) ==
    IF isrc = <<>> \/ filePath = ""
    THEN index
    ELSE Put(index, ToUpper(isrc), filePath)

\* CheckFileExists
CheckFileExists(filePath) ==
    filePath \in DOMAIN disk /\ disk[filePath].kind = "flac"

\* buildISRCIndex, the walk: every FLAC file with a readable, non-empty ISRC
\* tag is entered under the uppercased tag; a later file replaces an earlier.
RECURSIVE walk(_, _)
walk(i, index) ==
    IF i > Len(Files)
    THEN index
    ELSE LET path == Files[i]
             metadata == disk[path]
         IN  IF metadata.kind # "flac" \/ metadata.isrc = <<>>
             THEN walk(i + 1, index)
             ELSE walk(i + 1, Put(index, ToUpper(metadata.isrc), path))

\* exists && time.Since(idx.buildTime) < isrcIndexTTL
Fresh(id) ==
    id # NoIdx /\ now - heap[id].buildTime < IsrcIndexTTL


\* Locals of an index call in progress.
\* walked tells whether the call has walked the directory. input, tracks,
\* results and done are those of CheckFilesExistParallel: its argument, the
\* tracks decoded from it, the results slice and the tasks that have ended.
NoBatch == [valid |-> TRUE, array |-> <<>>]
NoLocal ==
    [op |-> "", outputDir |-> "", isrc |-> <<>>, filePath |-> "", idx |-> NoIdx, walked |-> FALSE,
     input |-> NoBatch, tracks |-> <<>>, results |-> <<>>, done |-> {}]

\* What an index call hands back; iret holds it until the caller takes it.
\* before is the map of the index as the last step of the call found it.
IReturned(t, loc) ==
    [task |-> t, op |-> loc.op, outputDir |-> loc.outputDir, isrc |-> loc.isrc,
     filePath |-> "", exists |-> FALSE, idx |-> NoIdx, did |-> "", before |-> EmptyIndex,
     err |-> "", walked |-> loc.walked, input |-> loc.input, json |-> <<>>]

NoIRet == IReturned("", NoLocal)

\* Task t can take its next step.
IReady(t, at) == iret = NoIRet /\ ipc[t] = at

\* The references in use, and the heap without the objects nobody refers to.
Refs(c, l, r) ==
    ({c[d] : d \in IndexDirs} \cup {l[t].idx : t \in Tasks} \cup {r.idx}) \ {NoIdx}

Collect(h, c, l, r) ==
    [i \in IdxIds |-> IF i \in Refs(c, l, r) THEN h[i] ELSE NullObj]

\* &ISRCIndex{...}: the reference of the new object
NewIdx ==
    CHOOSE i \in IdxIds :
        /\ i \notin Refs(isrcIndexCache, ilocal, iret)
        /\ \A j \in IdxIds : j \notin Refs(isrcIndexCache, ilocal, iret) => i <= j

Goto(t, at, loc) ==
    /\ ipc' = [ipc EXCEPT ![t] = at]
    /\ ilocal' = [ilocal EXCEPT ![t] = loc]
    /\ UNCHANGED iret

Return(t, r) ==
    /\ ipc' = [ipc EXCEPT ![t] = "idle"]
    /\ ilocal' = [ilocal EXCEPT ![t] = NoLocal]
    /\ iret' = r

\* GetISRCIndex returns idx: to the caller of the model, into
\* CheckFilesExistParallel, which goes on to start its tasks, or into
\* checkISRCExistsInternal, which goes on to look the identifier up.
ReturnIndex(t, loc, id) ==
    IF loc.op = "GetISRCIndex"
    THEN Return(t, [IReturned(t, loc) EXCEPT !.idx = id])
    ELSE IF loc.op = "CheckFilesExistParallel"
         THEN Goto(t, "tasks", [loc EXCEPT !.idx = id])
         ELSE Goto(t, "lookup", [loc EXCEPT !.idx = id])

\* mu.Unlock(), deferred in GetISRCIndex; PreBuildISRCIndex holds no lock.
Unlocked(t) ==
    [d \in IndexDirs |-> IF buildLock[d] = t THEN "" ELSE buildLock[d]]

\* A call of GetISRCIndex begins.
GetISRCIndex(t, outputDir) ==
    /\ IReady(t, "idle")
    /\ Goto(t, "fast", [NoLocal EXCEPT !.op = "GetISRCIndex", !.outputDir = outputDir])
    /\ UNCHANGED <<now, disk, heap, isrcIndexCache, buildLock, sandboxVars, restVars>>
    /\ UNCHANGED <<cache, lastCleanup, lastCleanupIsZero, pc, getLocal, ret>>

\* CheckISRCExists / checkISRCExistsInternal begins.
CheckISRCExists(t, outputDir, isrc) ==
    /\ IReady(t, "idle")
    /\ LET loc == [NoLocal EXCEPT !.op = "CheckISRCExists", !.outputDir = outputDir, !.isrc = isrc]
       IN  IF isrc = <<>> \/ outputDir = ""
           THEN Return(t, [IReturned(t, loc) EXCEPT !.did = "no argument"])
           ELSE Goto(t, "fast", loc)
    /\ UNCHANGED <<now, disk, heap, isrcIndexCache, buildLock, sandboxVars, restVars>>
    /\ UNCHANGED <<cache, lastCleanup, lastCleanupIsZero, pc, getLocal, ret>>

\* PreBuildISRCIndex begins: it builds without looking at the cache.
PreBuildISRCIndex(t, outputDir) ==
    /\ IReady(t, "idle")
    /\ LET loc == [NoLocal EXCEPT !.op = "PreBuildISRCIndex", !.outputDir = outputDir]
       IN  IF outputDir = ""
           THEN Return(t, [IReturned(t, loc) EXCEPT !.err = "output directory is required"])
           ELSE Goto(t, "walk", loc)
    /\ UNCHANGED <<now, disk, heap, isrcIndexCache, buildLock, sandboxVars, restVars>>
    /\ UNCHANGED <<cache, lastCleanup, lastCleanupIsZero, pc, getLocal, ret>>

\* GetISRCIndex, fast path: the cached index if there is a fresh one.
GetFast(t) ==
    /\ IReady(t, "fast")
    /\ LET idx == isrcIndexCache[ilocal[t].outputDir]
       IN  IF Fresh(idx)
           THEN ReturnIndex(t, ilocal[t], idx)
           ELSE Goto(t, "lock", ilocal[t])
    /\ heap' = Collect(heap, isrcIndexCache, ilocal', iret')
    /\ UNCHANGED <<now, disk, isrcIndexCache, buildLock, sandboxVars, restVars>>
    /\ UNCHANGED <<cache, lastCleanup, lastCleanupIsZero, pc, getLocal, ret>>

\* GetISRCIndex, slow path: mu.Lock() on the build lock of the directory.
GetLock(t) ==
    /\ IReady(t, "lock")
    /\ buildLock[ilocal[t].outputDir] = ""
    /\ buildLock' = [buildLock EXCEPT ![ilocal[t].outputDir] = t]
    /\ Goto(t, "check", ilocal[t])
    /\ UNCHANGED <<now, disk, heap, isrcIndexCache, sandboxVars, restVars>>
    /\ UNCHANGED <<cache, lastCleanup, lastCleanupIsZero, pc, getLocal, ret>>

\* GetISRCIndex building as soon as it holds the lock, without looking at
\* the cache again: a faulty variant, against which C12 is shown to depend
\* on the repeated check.
GetCheckAlwaysBuilds(t) ==
    /\ IReady(t, "check")
    /\ Goto(t, "walk", ilocal[t])
    /\ UNCHANGED <<now, disk, heap, isrcIndexCache, buildLock, sandboxVars, restVars>>
    /\ UNCHANGED <<cache, lastCleanup, lastCleanupIsZero, pc, getLocal, ret>>

\* GetISRCIndex, the check repeated under the build lock.
GetCheck(t) ==
    /\ IReady(t, "check")
    /\ LET idx == isrcIndexCache[ilocal[t].outputDir]
       IN  IF Fresh(idx)
           THEN /\ ReturnIndex(t, ilocal[t], idx)
                /\ buildLock' = Unlocked(t)
           ELSE /\ Goto(t, "walk", ilocal[t])
                /\ UNCHANGED buildLock
    /\ heap' = Collect(heap, isrcIndexCache, ilocal', iret')
    /\ UNCHANGED <<now, disk, isrcIndexCache, sandboxVars, restVars>>
    /\ UNCHANGED <<cache, lastCleanup, lastCleanupIsZero, pc, getLocal, ret>>

\* buildISRCIndex up to the end of the walk: a new index, stamped with the
\* time, filled from the files. For "" it is returned empty and not cached.
BuildWalk(t) ==
    /\ IReady(t, "walk")
    /\ LET loc == ilocal[t]
           idx == NewIdx
           obj == [live |-> TRUE, outputDir |-> loc.outputDir, buildTime |-> now,
                   invalidated |-> FALSE,
                   index |-> IF loc.outputDir = "" THEN EmptyIndex ELSE walk(1, EmptyIndex)]
       IN  /\ IF loc.outputDir = ""
              THEN /\ ReturnIndex(t, loc, idx)
                   /\ buildLock' = Unlocked(t)
              ELSE /\ Goto(t, "store", [loc EXCEPT !.idx = idx, !.walked = TRUE])
                   /\ UNCHANGED buildLock
           /\ heap' = Collect([heap EXCEPT ![idx] = obj], isrcIndexCache, ilocal', iret')
    /\ UNCHANGED <<now, disk, isrcIndexCache, sandboxVars, restVars>>
    /\ UNCHANGED <<cache, lastCleanup, lastCleanupIsZero, pc, getLocal, ret>>

\* buildISRCIndex, the end: the index is stored in the cache and returned.
BuildStore(t) ==
    /\ IReady(t, "store")
    /\ LET loc == ilocal[t]
       IN  /\ isrcIndexCache' = [isrcIndexCache EXCEPT ![loc.outputDir] = loc.idx]
           /\ buildLock' = Unlocked(t)
           /\ IF loc.op = "PreBuildISRCIndex"
              THEN Return(t, [IReturned(t, loc) EXCEPT !.did = "built"])
              ELSE ReturnIndex(t, loc, loc.idx)
    /\ heap' = Collect(heap, isrcIndexCache', ilocal', iret')
    /\ UNCHANGED <<now, disk, sandboxVars, restVars>>
    /\ UNCHANGED <<cache, lastCleanup, lastCleanupIsZero, pc, getLocal, ret>>


\* checkISRCExistsInternal: idx.lookup(isrc) on the index GetISRCIndex gave.
CheckLookup(t) ==
    /\ IReady(t, "lookup")
    /\ LET loc == ilocal[t]
           found == lookup(heap[loc.idx].index, loc.isrc)
       IN  IF ~found.exists
           THEN Return(t, [IReturned(t, loc) EXCEPT !.idx = loc.idx, !.did = "lookup",
                                                    !.before = heap[loc.idx].index])
           ELSE Goto(t, "stat", [loc EXCEPT !.filePath = found.path])
    /\ heap' = Collect(heap, isrcIndexCache, ilocal', iret')
    /\ UNCHANGED <<now, disk, isrcIndexCache, buildLock, sandboxVars, restVars>>
    /\ UNCHANGED <<cache, lastCleanup, lastCleanupIsZero, pc, getLocal, ret>>

\* checkISRCExistsInternal answering from the index alone, without asking
\* the file system: a faulty variant, against which C14 is shown to depend
\* on CheckFileExists.
CheckStatTrustsIndex(t) ==
    /\ IReady(t, "stat")
    /\ LET loc == ilocal[t]
       IN  Return(t, [IReturned(t, loc) EXCEPT !.idx = loc.idx, !.did = "stat",
                                               !.filePath = loc.filePath, !.exists = TRUE,
                                               !.before = heap[loc.idx].index])
    /\ heap' = Collect(heap, isrcIndexCache, ilocal', iret')
    /\ UNCHANGED <<now, disk, isrcIndexCache, buildLock, sandboxVars, restVars>>
    /\ UNCHANGED <<cache, lastCleanup, lastCleanupIsZero, pc, getLocal, ret>>

\* checkISRCExistsInternal: CheckFileExists(filePath) on the path found.
CheckStat(t) ==
    /\ IReady(t, "stat")
    /\ LET loc == ilocal[t]
       IN  IF CheckFileExists(loc.filePath)
           THEN Return(t, [IReturned(t, loc) EXCEPT !.idx = loc.idx, !.did = "stat",
                                                    !.filePath = loc.filePath, !.exists = TRUE,
                                                    !.before = heap[loc.idx].index])
           ELSE Goto(t, "remove", loc)
    /\ heap' = Collect(heap, isrcIndexCache, ilocal', iret')
    /\ UNCHANGED <<now, disk, isrcIndexCache, buildLock, sandboxVars, restVars>>
    /\ UNCHANGED <<cache, lastCleanup, lastCleanupIsZero, pc, getLocal, ret>>

\* checkISRCExistsInternal: idx.remove(isrc) of the stale entry; not found.
CheckRemove(t) ==
    /\ IReady(t, "remove")
    /\ LET loc == ilocal[t]
           index == heap[loc.idx].index
       IN  /\ Return(t, [IReturned(t, loc) EXCEPT !.idx = loc.idx, !.did = "remove",
                                                  !.before = index])
           /\ heap' = Collect([heap EXCEPT ![loc.idx].index = remove(index, loc.isrc)],
                              isrcIndexCache, ilocal', iret')
    /\ UNCHANGED <<now, disk, isrcIndexCache, buildLock, sandboxVars, restVars>>
    /\ UNCHANGED <<cache, lastCleanup, lastCleanupIsZero, pc, getLocal, ret>>

\* AddToISRCIndex begins: the cached index of the directory is read.
AddToISRCIndex(t, outputDir, isrc, filePath) ==
    /\ IReady(t, "idle")
    /\ LET loc == [NoLocal EXCEPT !.op = "AddToISRCIndex", !.outputDir = outputDir,
                                  !.isrc = isrc, !.filePath = filePath]
       IN  IF outputDir = "" \/ isrc = <<>> \/ filePath = ""
           THEN Return(t, [IReturned(t, loc) EXCEPT !.did = "no argument"])
           ELSE IF isrcIndexCache[outputDir] = NoIdx
                THEN Return(t, [IReturned(t, loc) EXCEPT !.did = "no index",
                                                         !.filePath = filePath])
                ELSE Goto(t, "add", [loc EXCEPT !.idx = isrcIndexCache[outputDir]])
    /\ UNCHANGED <<now, disk, heap, isrcIndexCache, buildLock, sandboxVars, restVars>>
    /\ UNCHANGED <<cache, lastCleanup, lastCleanupIsZero, pc, getLocal, ret>>

\* AddToISRCIndex returning without calling idx.Add: a faulty variant,
\* against which C32 is shown to depend on the entry being written.
AddToIndexSkipped(t) ==
    /\ IReady(t, "add")
    /\ LET loc == ilocal[t]
           index == heap[loc.idx].index
       IN  /\ Return(t, [IReturned(t, loc) EXCEPT !.idx = loc.idx, !.did = "add",
                                                  !.filePath = loc.filePath, !.before = index])
           /\ heap' = Collect(heap, isrcIndexCache, ilocal', iret')
    /\ UNCHANGED <<now, disk, isrcIndexCache, buildLock, sandboxVars, restVars>>
    /\ UNCHANGED <<cache, lastCleanup, lastCleanupIsZero, pc, getLocal, ret>>

\* AddToISRCIndex: idx.Add(isrc, filePath) on the index that was read.
AddToIndex(t) ==
    /\ IReady(t, "add")
    /\ LET loc == ilocal[t]
           index == heap[loc.idx].index
       IN  /\ Return(t, [IReturned(t, loc) EXCEPT !.idx = loc.idx, !.did = "add",
                                                  !.filePath = loc.filePath, !.before = index])
           /\ heap' = Collect([heap EXCEPT ![loc.idx].index = Add(index, loc.isrc, loc.filePath)],
                              isrcIndexCache, ilocal', iret')
    /\ UNCHANGED <<now, disk, isrcIndexCache, buildLock, sandboxVars, restVars>>
    /\ UNCHANGED <<cache, lastCleanup, lastCleanupIsZero, pc, getLocal, ret>>

\* ISRCIndex.Lookup, called on the index the caller was just given.
Lookup(t, isrc) ==
    /\ iret.task = t
    /\ iret.op \in {"GetISRCIndex", "Lookup"}
    /\ iret.idx # NoIdx
    /\ ipc[t] = "idle"
    /\ LET found == lookup(heap[iret.idx].index, isrc)
           loc == [NoLocal EXCEPT !.op = "Lookup", !.isrc = isrc]
       IN  iret' = [IReturned(t, loc) EXCEPT !.idx = iret.idx, !.did = "lookup",
                                             !.filePath = found.path, !.exists = found.exists,
                                             !.before = heap[iret.idx].index]
    /\ iret' # iret
    /\ UNCHANGED <<now, disk, heap, isrcIndexCache, buildLock, ipc, ilocal, sandboxVars, restVars>>
    /\ UNCHANGED <<cache, lastCleanup, lastCleanupIsZero, pc, getLocal, ret>>

\* The indexes of the directory that exist, cached or being built, when it
\* is invalidated.
Invalidated(h, outputDir) ==
    [i \in IdxIds |-> IF h[i].live /\ h[i].outputDir = outputDir
                      THEN [h[i] EXCEPT !.invalidated = TRUE]
                      ELSE h[i]]

\* InvalidateISRCCache
InvalidateISRCCache(t, outputDir) ==
    /\ IReady(t, "idle")
    /\ isrcIndexCache' = [isrcIndexCache EXCEPT ![outputDir] = NoIdx]
    /\ heap' = Collect(Invalidated(heap, outputDir), isrcIndexCache', ilocal, iret)
    /\ UNCHANGED <<now, disk, buildLock, ipc, ilocal, iret, sandboxVars, restVars>>
    /\ UNCHANGED <<cache, lastCleanup, lastCleanupIsZero, pc, getLocal, ret>>

\* The output directory changes: a download completes, a file is deleted,
\* truncated or retagged, by this program or by anything else.
DiskChange(path, st) ==
    /\ iret = NoIRet
    /\ disk[path] # st
    /\ disk' = [disk EXCEPT ![path] = st]
    /\ UNCHANGED <<now, heap, isrcIndexCache, buildLock, ipc, ilocal, iret, sandboxVars, restVars>>
    /\ UNCHANGED <<cache, lastCleanup, lastCleanupIsZero, pc, getLocal, ret>>

\* Time passes.
IndexTick ==
    /\ iret = NoIRet
    /\ now + IsrcIndexTTL <= MaxIndexTime
    /\ now' = now + IsrcIndexTTL
    /\ UNCHANGED <<disk, heap, isrcIndexCache, buildLock, ipc, ilocal, iret, sandboxVars, restVars>>
    /\ UNCHANGED <<cache, lastCleanup, lastCleanupIsZero, pc, getLocal, ret>>

\* The caller takes the returned value.
IndexTakeReturn ==
    /\ iret # NoIRet
    /\ iret' = NoIRet
    /\ heap' = Collect(heap, isrcIndexCache, ilocal, iret')
    /\ UNCHANGED <<now, disk, isrcIndexCache, buildLock, ipc, ilocal, sandboxVars, restVars>>
    /\ UNCHANGED <<cache, lastCleanup, lastCleanupIsZero, pc, getLocal, ret>>

\* The package as loaded: an empty cache, no build lock, an output directory
\* with no files yet.
IndexInit ==
    /\ disk = [path \in FileSet |-> Absent]
    /\ heap = [i \in IdxIds |-> NullObj]
    /\ isrcIndexCache = [d \in IndexDirs |-> NoIdx]
    /\ buildLock = [d \in IndexDirs |-> ""]
    /\ ipc = [t \in Tasks |-> "idle"]
    /\ ilocal = [t \in Tasks |-> NoLocal]
    /\ iret = NoIRet

IndexSpecInit == IndexInit /\ SandboxIdleInit /\ CacheIdleInit /\ RestIdleInit

\* The callers of the index in IndexSpec: one call at a time.
IndexCallers == {"t1"}

IndexNext ==
    \/ \E t \in IndexCallers, d \in IndexDirs : GetISRCIndex(t, d)
    \/ \E t \in IndexCallers, d \in IndexDirs, isrc \in IndexISRCs : CheckISRCExists(t, d, isrc)
    \/ \E t \in IndexCallers, d \in IndexDirs : PreBuildISRCIndex(t, d)
    \/ \E t \in IndexCallers : GetFast(t)
    \/ \E t \in IndexCallers : GetLock(t)
    \/ \E t \in IndexCallers : GetCheck(t)
    \/ \E t \in IndexCallers : BuildWalk(t)
    \/ \E t \in IndexCallers : BuildStore(t)
    \/ \E t \in IndexCallers : CheckLookup(t)
    \/ \E t \in IndexCallers : CheckStat(t)
    \/ \E t \in IndexCallers : CheckRemove(t)
    \/ \E t \in IndexCallers, d \in IndexDirs, isrc \in IndexISRCs, path \in FileSet \cup {""} :
           AddToISRCIndex(t, d, isrc, path)
    \/ \E t \in IndexCallers : AddToIndex(t)
    \/ \E t \in IndexCallers, isrc \in IndexISRCs : Lookup(t, isrc)
    \/ \E t \in IndexCallers, d \in IndexDirs : InvalidateISRCCache(t, d)
    \/ \E path \in FileSet : \E st \in DiskStates(path) : DiskChange(path, st)
    \/ IndexTick
    \/ IndexTakeReturn

\* The ISRC index used by a caller while files come and go and time passes.
IndexSpec == IndexSpecInit /\ [][IndexNext]_vars


(***************************************************************************)
(* Properties of the ISRC index                                            *)
(***************************************************************************)
\* The keys of index that are the identifier isrc in some letter case.
EntriesFor(index, isrc) ==
    {k \in DOMAIN index : ToUpper(k) = ToUpper(isrc)}

\* index and before agree on every identifier other than isrc.
SameElsewhere(index, before, isrc) ==
    /\ DOMAIN index \ EntriesFor(index, isrc) = DOMAIN before \ EntriesFor(before, isrc)
    /\ \A k \in DOMAIN index \ EntriesFor(index, isrc) : index[k] = before[k]

\* C10: index keys are case-insensitive: every key stored by the build or by
\* Add is in uppercase, and lookup, Add and remove called with an identifier
\* in any letter case act on the one entry of that identifier.
C10_IndexKeysIgnoreCase ==
    /\ \A i \in IdxIds : \A k \in DOMAIN heap[i].index : k = ToUpper(k)
    /\ iret.did = "lookup" =>
           /\ iret.exists <=> EntriesFor(iret.before, iret.isrc) # {}
           /\ iret.exists => \A k \in EntriesFor(iret.before, iret.isrc) :
                                 iret.before[k] = iret.filePath
    /\ iret.did = "add" =>
           LET index == heap[iret.idx].index
           IN  /\ Cardinality(EntriesFor(index, iret.isrc)) = 1
               /\ \A k \in EntriesFor(index, iret.isrc) : index[k] = iret.filePath
               /\ SameElsewhere(index, iret.before, iret.isrc)
    /\ iret.did = "remove" =>
           LET index == heap[iret.idx].index
           IN  /\ EntriesFor(index, iret.isrc) = {}
               /\ SameElsewhere(index, iret.before, iret.isrc)

\* Add was called with the lowercase form of an identifier the walk had
\* entered from a file, replaced the path of that entry and left the entry
\* of another identifier alone.
C10_Witness ==
    /\ iret.did = "add"
    /\ iret.isrc # ToUpper(iret.isrc)
    /\ ToUpper(iret.isrc) \in DOMAIN iret.before
    /\ iret.before[ToUpper(iret.isrc)] # iret.filePath
    /\ heap[iret.idx].index[ToUpper(iret.isrc)] = iret.filePath
    /\ Cardinality(DOMAIN heap[iret.idx].index) > 1


(***************************************************************************)
(* Concurrent requests for the index of a directory never built            *)
(* Every task calls GetISRCIndex once for the same directory and keeps the *)
(* index it is given. The calls finish well within isrcIndexTTL.           *)
(***************************************************************************)
\* The directory the tasks ask for.
RaceDir == "/music"

\* The caller keeps the index GetISRCIndex returned to it.
HoldIndex(t) ==
    /\ iret.task = t
    /\ iret.op = "GetISRCIndex"
    /\ ipc[t] = "idle"
    /\ ipc' = [ipc EXCEPT ![t] = "holding"]
    /\ ilocal' = [ilocal EXCEPT ![t] = [NoLocal EXCEPT !.op = "GetISRCIndex",
                                                       !.outputDir = iret.outputDir,
                                                       !.idx = iret.idx, !.walked = iret.walked]]
    /\ iret' = NoIRet
    /\ UNCHANGED <<now, disk, heap, isrcIndexCache, buildLock, sandboxVars, restVars>>
    /\ UNCHANGED <<cache, lastCleanup, lastCleanupIsZero, pc, getLocal, ret>>

RaceNext ==
    \/ \E t \in Tasks : GetISRCIndex(t, RaceDir)
    \/ \E t \in Tasks : GetFast(t)
    \/ \E t \in Tasks : GetLock(t)
    \/ \E t \in Tasks : GetCheck(t)
    \/ \E t \in Tasks : BuildWalk(t)
    \/ \E t \in Tasks : BuildStore(t)
    \/ \E t \in Tasks : HoldIndex(t)
    \/ \E path \in FileSet : \E st \in DiskStates(path) : DiskChange(path, st)

RaceSpec == IndexSpecInit /\ [][RaceNext]_vars

\* The tasks whose call has walked the directory.
Walkers == {t \in Tasks : ilocal[t].walked \/ (iret.task = t /\ iret.walked)}

\* C12: tasks calling GetISRCIndex concurrently for one directory that has no
\* cached index cause exactly one directory walk, in every interleaving, and
\* every caller is given the index that walk produced.
C12_OneWalkForConcurrentRequests ==
    /\ Cardinality(Walkers) <= 1
    /\ \A t \in Tasks : ipc[t] = "holding" =>
           /\ Cardinality(Walkers) = 1
           /\ ilocal[t].idx = isrcIndexCache[RaceDir]
           /\ heap[ilocal[t].idx].live
    /\ (iret.op = "GetISRCIndex" /\ iret.idx # NoIdx) => iret.idx = isrcIndexCache[RaceDir]

\* Both tasks missed the cache before either had built: one has walked,
\* stored and been given its index, filled from a file; the other has waited
\* for the build lock and is about to look at the cache again.
C12_Witness ==
    \E t \in Tasks, u \in Tasks :
        /\ ipc[t] = "check"
        /\ ipc[u] = "holding"
        /\ ilocal[u].walked
        /\ ilocal[u].idx = isrcIndexCache[RaceDir]
        /\ DOMAIN heap[isrcIndexCache[RaceDir]].index # {}


(***************************************************************************)
(* All entry points that build an index, called concurrently               *)
(***************************************************************************)
BuildNext ==
    \/ \E t \in Tasks : GetISRCIndex(t, RaceDir)
    \/ \E t \in Tasks : PreBuildISRCIndex(t, RaceDir)
    \/ \E t \in Tasks : GetFast(t)
    \/ \E t \in Tasks : GetLock(t)
    \/ \E t \in Tasks : GetCheck(t)
    \/ \E t \in Tasks : BuildWalk(t)
    \/ \E t \in Tasks : BuildStore(t)
    \/ \E path \in FileSet : \E st \in DiskStates(path) : DiskChange(path, st)
    \/ IndexTakeReturn

BuildSpec == IndexSpecInit /\ [][BuildNext]_vars

\* The tasks inside buildISRCIndex for directory d: the walk is done, the
\* index is not yet stored.
Building(d) == {t \in Tasks : ipc[t] = "store" /\ ilocal[t].outputDir = d}

\* C13 (as claimed; refuted under BuildSpec): in every reachable state at
\* most one index build is in progress for a directory, whichever of
\* GetISRCIndex and PreBuildISRCIndex started it.
C13_AtMostOneBuildPerDirectory ==
    \A d \in IndexDirs : Cardinality(Building(d)) <= 1


(***************************************************************************)
(* Existence checks against a fresh index while files are deleted          *)
(* The index is built by PreBuildISRCIndex; CheckISRCExists is called       *)
(* while a fresh index is cached; files come and go in between.            *)
(***************************************************************************)
\* CheckISRCExists called while the directory has a fresh cached index.
CheckWithFreshIndex(t, isrc) ==
    /\ Fresh(isrcIndexCache[RaceDir])
    /\ CheckISRCExists(t, RaceDir, isrc)

StaleNext ==
    \/ \E t \in IndexCallers : PreBuildISRCIndex(t, RaceDir)
    \/ \E t \in IndexCallers, isrc \in ISRCs : CheckWithFreshIndex(t, isrc)
    \/ \E t \in IndexCallers : GetFast(t)
    \/ \E t \in IndexCallers : BuildWalk(t)
    \/ \E t \in IndexCallers : BuildStore(t)
    \/ \E t \in IndexCallers : CheckLookup(t)
    \/ \E t \in IndexCallers : CheckStat(t)
    \/ \E t \in IndexCallers : CheckRemove(t)
    \/ \E path \in FileSet : \E st \in DiskStates(path) : DiskChange(path, st)
    \/ IndexTakeReturn

StaleSpec == IndexSpecInit /\ [][StaleNext]_vars

\* C14: when a file recorded in a fresh index has been deleted, the next
\* CheckISRCExists for its identifier answers not-found and removes the entry
\* from the index; a check that finds no entry (the second one) answers
\* not-found from the lookup alone; neither starts a directory walk.
C14_StaleEntryEvictedWithoutWalk ==
    iret.op = "CheckISRCExists" =>
        /\ ~iret.walked
        /\ iret.exists => CheckFileExists(iret.filePath)
        /\ (EntriesFor(iret.before, iret.isrc) # {}
               /\ \A k \in EntriesFor(iret.before, iret.isrc) : ~CheckFileExists(iret.before[k]))
           => /\ iret.did = "remove"
              /\ ~iret.exists
              /\ EntriesFor(heap[iret.idx].index, iret.isrc) = {}
        /\ EntriesFor(iret.before, iret.isrc) = {}
           => iret.did = "lookup" /\ ~iret.exists /\ iret.filePath = ""

\* The walk had recorded a file under its identifier; the file was deleted;
\* the check, asked in lowercase, answered not-found and removed the entry,
\* leaving the entry of another file in place.
C14_Witness ==
    /\ iret.op = "CheckISRCExists"
    /\ iret.isrc # ToUpper(iret.isrc)
    /\ iret.did = "remove"
    /\ ~iret.exists
    /\ ToUpper(iret.isrc) \in DOMAIN iret.before
    /\ disk[iret.before[ToUpper(iret.isrc)]].kind = "absent"
    /\ heap[iret.idx].index # EmptyIndex
    /\ iret.idx = isrcIndexCache[RaceDir]


(***************************************************************************)
(* Script execution with a deadline (RunWithTimeout)                       *)
(* Two goroutines: the caller, racing the deadline against the result, and *)
(* the execution task. Time is counted in seconds since the call. The      *)
(* engine is outside the program: what RunString does is a choice among    *)
(* the things an engine can do with the kind of script it is given.        *)
(***************************************************************************)
\* The grace period: time.After(1 * time.Second)
Grace == 1
\* DefaultJSTimeout, in seconds
DefaultJSTimeout == 2
\* Last second of the clock of a call.
MaxElapsed == 4

\* Timeouts callers pass; a non-positive one stands for the default.
Timeouts == {0, 1}

\* Kinds of script: it returns a value, throws, makes the engine panic, or
\* never completes on its own.
Scripts == {"returns", "throws", "panics", "loops"}

\* error values
NilErr == [type |-> "nil"]
ScriptErr == [type |-> "*goja.Exception", text |-> "script error"]
InterruptedErr == [type |-> "*goja.InterruptedError", text |-> "execution timeout"]
PanicErr == [type |-> "*fmt.wrapError", text |-> "panic during execution"]
\* &JSExecutionError{Message: msg, IsTimeout: true}
TimeoutErr(msg) == [type |-> "*JSExecutionError", Message |-> msg, IsTimeout |-> TRUE]

\* IsTimeoutError
IsTimeoutError(err) ==
    IF err.type = "*JSExecutionError" THEN err.IsTimeout ELSE FALSE

\* result{value, err}
Result(value, err) == [value |-> value, err |-> err]
NoResult == Result("", NilErr)

\* make(chan result, 1): the results the channel holds without a receiver
ResultChCap == 1

NoRun ==
    [main |-> "idle", exec |-> "none", script |-> "", timeout |-> 0, elapsed |-> 0,
     deadlineFired |-> FALSE, graceAt |-> 0, graceFired |-> FALSE, interrupted |-> FALSE,
     vmInterrupted |-> FALSE, resultCh |-> <<>>, ret |-> NoResult, retAt |-> 0,
     sentBeforeDeadline |-> FALSE, panicBeforeInterrupt |-> FALSE, recover |-> FALSE]

RunFrame ==
    UNCHANGED <<sandboxVars, cacheVars, indexVars, warm, fetch, req>>

\* RunWithTimeout is called: the context is created with its deadline, the
\* channel is made and the execution task is started.
RunWithTimeout(script, timeout) ==
    /\ run.main = "idle"
    /\ run' = [NoRun EXCEPT !.main = "select", !.exec = "running", !.script = script,
                            !.timeout = IF timeout <= 0 THEN DefaultJSTimeout ELSE timeout]
    /\ RunFrame

\* The outcomes RunString can return to the execution task.
RunStringResults ==
    (IF run.script = "returns" THEN {Result("value", NilErr)} ELSE {})
    \cup (IF run.script = "throws" THEN {Result("", ScriptErr)} ELSE {})
    \cup (IF run.vmInterrupted THEN {Result("", InterruptedErr)} ELSE {})

\* The deferred function sending on a normal return as well, after the
\* task has sent: a faulty variant, against which C40 is shown to depend on
\* the deferred function sending only when it recovered a panic.
ExecReturnThenDeferredSend ==
    /\ run.exec = "running"
    /\ Len(run.resultCh) < ResultChCap
    /\ \E res \in RunStringResults :
           run' = [run EXCEPT !.exec = "panicking", !.resultCh = Append(@, res),
                              !.sentBeforeDeadline = ~run.deadlineFired]
    /\ RunFrame

\* vm.RunString returns and the task sends what it returned; a send needs
\* room in the channel.
ExecReturn ==
    /\ run.exec = "running"
    /\ Len(run.resultCh) < ResultChCap
    /\ \E res \in RunStringResults :
           run' = [run EXCEPT !.exec = "done", !.resultCh = Append(@, res),
                              !.sentBeforeDeadline = ~run.deadlineFired]
    /\ RunFrame

\* vm.RunString panics: of the script's doing, or as the engine's way of
\* stopping on an interrupt.
ExecPanic ==
    /\ run.exec = "running"
    /\ run.script = "panics" \/ run.vmInterrupted
    /\ run' = [run EXCEPT !.exec = "panicking", !.panicBeforeInterrupt = ~run.interrupted]
    /\ RunFrame

\* The deferred function of the task: recover(), read the flag, send.
ExecRecover ==
    /\ run.exec = "panicking"
    /\ Len(run.resultCh) < ResultChCap
    /\ LET wasInterrupted == run.interrupted
           res == IF wasInterrupted
                  THEN Result("", TimeoutErr("execution timeout exceeded"))
                  ELSE Result("", PanicErr)
       IN  run' = [run EXCEPT !.exec = "done", !.resultCh = Append(@, res)]
    /\ RunFrame

\* The deadline of the context passes: ctx.Done() is closed.
DeadlineFires ==
    /\ run.main \in {"select", "grace"}
    /\ ~run.deadlineFired
    /\ run.elapsed >= run.timeout
    /\ run' = [run EXCEPT !.deadlineFired = TRUE]
    /\ RunFrame

\* The caller's select takes the result.
SelectResult ==
    /\ run.main = "select"
    /\ run.resultCh # <<>>
    /\ run' = [run EXCEPT !.main = "returned", !.resultCh = Tail(@),
                          !.ret = Head(run.resultCh), !.retAt = run.elapsed]
    /\ RunFrame

\* The caller's select takes ctx.Done(): the flag is set, the engine is
\* interrupted, the grace timer is started.
SelectDeadline ==
    /\ run.main = "select"
    /\ run.deadlineFired
    /\ run' = [run EXCEPT !.main = "grace", !.interrupted = TRUE, !.vmInterrupted = TRUE,
                          !.graceAt = run.elapsed + Grace]
    /\ RunFrame

\* The grace timer fires.
GraceFires ==
    /\ run.main = "grace"
    /\ ~run.graceFired
    /\ run.elapsed >= run.graceAt
    /\ run' = [run EXCEPT !.graceFired = TRUE]
    /\ RunFrame

\* The second select takes the result: its error if it has one, else Timeout.
GraceResult ==
    /\ run.main = "grace"
    /\ run.resultCh # <<>>
    /\ LET res == Head(run.resultCh)
       IN  run' = [run EXCEPT !.main = "returned", !.resultCh = Tail(@), !.retAt = run.elapsed,
                              !.ret = IF res.err # NilErr
                                      THEN Result("", res.err)
                                      ELSE Result("", TimeoutErr("execution timeout exceeded"))]
    /\ RunFrame

\* The second select without its timer case: a faulty variant, against
\* which C25 is shown to depend on the grace timer.
GraceTimeoutAwaitsResult ==
    /\ run.main = "grace"
    /\ run.graceFired
    /\ run.resultCh # <<>>
    /\ run' = [run EXCEPT !.main = "returned", !.retAt = run.elapsed, 
                          !.ret = Result("", TimeoutErr("execution timeout exceeded (force)"))]
    /\ RunFrame

\* The second select takes the grace timer: forced Timeout.
GraceTimeout ==
    /\ run.main = "grace"
    /\ run.graceFired
    /\ run' = [run EXCEPT !.main = "returned", !.retAt = run.elapsed,
                          !.ret = Result("", TimeoutErr("execution timeout exceeded (force)"))]
    /\ RunFrame

\* A timer is due, or the caller has a case of its select ready.
CallerCanStep ==
    \/ run.main = "select" /\ (run.resultCh # <<>> \/ run.deadlineFired)
    \/ run.main = "grace" /\ (run.resultCh # <<>> \/ run.graceFired)
    \/ run.main \in {"select", "grace"} /\ ~run.deadlineFired /\ run.elapsed >= run.timeout
    \/ run.main = "grace" /\ ~run.graceFired /\ run.elapsed >= run.graceAt

\* A second passes; timers and the blocked caller do not oversleep.
RunTick ==
    /\ run.main \in {"select", "grace"}
    /\ ~CallerCanStep
    /\ run.elapsed < MaxElapsed
    /\ run' = [run EXCEPT !.elapsed = @ + 1]
    /\ RunFrame

\* The caller goes on with what RunWithTimeout returned.
RunDone ==
    /\ run.main = "returned"
    /\ run' = NoRun
    /\ RunFrame

RunInit == run = NoRun /\ warm = <<>> /\ fetch = <<>> /\ req = <<>>

RunSpecInit == RunInit /\ SandboxIdleInit /\ CacheIdleInit /\ IndexIdleInit

RunNext ==
    \/ \E script \in Scripts, timeout \in Timeouts : RunWithTimeout(script, timeout)
    \/ ExecReturn
    \/ ExecPanic
    \/ ExecRecover
    \/ DeadlineFires
    \/ SelectResult
    \/ SelectDeadline
    \/ GraceFires
    \/ GraceResult
    \/ GraceTimeout
    \/ RunTick
    \/ RunDone

RunSpec == RunSpecInit /\ [][RunNext]_vars


\* C15: a call whose script never completes on its own is still waiting no
\* later than timeout + grace after it began, returns no later than that, and
\* returns an error that IsTimeoutError classifies as Timeout.
C15_NeverCompletingScriptTimesOut ==
    run.script = "loops" =>
        /\ run.main \in {"select", "grace"} => run.elapsed <= run.timeout + Grace
        /\ run.main = "returned" =>
               /\ run.retAt <= run.timeout + Grace
               /\ IsTimeoutError(run.ret.err)

\* C16: when the script's own result was sent before the deadline fired, the
\* call returns exactly that result, which is not classified Timeout.
C16_ResultBeforeDeadlineIsReturned ==
    (run.main = "returned" /\ run.sentBeforeDeadline /\ run.script \in {"returns", "throws"}) =>
        /\ run.ret = (IF run.script = "returns" THEN Result("value", NilErr)
                                                ELSE Result("", ScriptErr))
        /\ ~IsTimeoutError(run.ret.err)

\* C17: when the script panicked while the interrupt had not been signalled,
\* the call returns the execution error made from the panic, never Timeout.
C17_PanicWithoutInterruptIsExecutionError ==
    (run.main = "returned" /\ run.panicBeforeInterrupt) =>
        /\ run.ret.err = PanicErr
        /\ ~IsTimeoutError(run.ret.err)


(***************************************************************************)
(* Pre-warming the track identifier cache (PreWarmTrackCache)              *)
(* The caller issues the same batch twice, the second call after the first *)
(* has returned. The resolvers are remote: whether one finds the track is  *)
(* a choice. remote counts the resolver calls of the call in progress, and  *)
(* allCached records whether, when it began, the cache held a live entry   *)
(* for every request of the batch. sem is the number of values in the      *)
(* semaphore channel, got what each task's resolver delivered; tracks and  *)
(* spawned belong to PreWarmCache: its argument, and whether the task it   *)
(* starts has yet to run.                                                  *)
(***************************************************************************)
\* Longest batch.
MaxBatch == 2
\* make(chan struct{}, 3)
SemaphoreSize == 3

\* Values of PreWarmCacheRequest.Service: the three the switch knows and one
\* it does not.
Services == {"tidal", "qobuz", "amazon", "deezer"}

\* PreWarmCacheRequest, the fields the code reads.
Requests == [ISRC : WriterISRCs, Service : Services]

Batches == UNION {[1..n -> Requests] : n \in 0..MaxBatch}

NoWarm ==
    [phase |-> "idle", call |-> 0, batch |-> <<>>, i |-> 0, workers |-> <<>>, remote |-> 0,
     allCached |-> FALSE, sem |-> 0, got |-> <<>>, tracks |-> <<>>, spawned |-> FALSE]

WarmFrame ==
    UNCHANGED <<now, pc, getLocal, ret, sandboxVars, indexVars, run, fetch, req>>

\* The cache holds an entry for isrc that has not expired.
Live(isrc) ==
    isrc \in DOMAIN cache /\ ~After(now, cache[isrc].ExpiresAt)

\* One turn of the loop that starts the task whatever the cache holds: a
\* faulty variant, against which C18 is shown to depend on the test.
WarmLoopIgnoresCache ==
    /\ warm.phase = "loop"
    /\ warm' = [warm EXCEPT !.workers[warm.i] = "queued", !.i = @ + 1,
                            !.phase = IF warm.i = Len(warm.batch) THEN "wait" ELSE "loop"]
    /\ UNCHANGED <<cache, lastCleanup, lastCleanupIsZero>>
    /\ UNCHANGED <<now, pc, getLocal, ret, sandboxVars, indexVars, run, fetch, req>>

\* The call after its first lines: back at once for an empty batch, else at
\* the head of the loop with no task started.
WarmStarted(requests) ==
    [warm EXCEPT !.phase = IF Len(requests) = 0 THEN "idle" ELSE "loop",
                 !.call = @ + 1, !.batch = requests, !.i = 1,
                 !.workers = [k \in 1..Len(requests) |-> "none"], !.remote = 0,
                 !.got = [k \in 1..Len(requests) |-> ""],
                 !.allCached = \A k \in 1..Len(requests) : Live(requests[k].ISRC)]

\* PreWarmTrackCache is called: with any batch the first time, with the same
\* batch the second time. An empty batch returns at once.
PreWarmTrackCache(requests) ==
    /\ warm.phase = "idle"
    /\ warm.call < 2
    /\ warm.call = 1 => requests = warm.batch
    /\ warm' = WarmStarted(requests)
    /\ UNCHANGED <<cache, lastCleanup, lastCleanupIsZero>>
    /\ WarmFrame

\* One turn of the loop: cache.Get(req.ISRC), which drops an expired entry,
\* then continue, or start the task of the request.
WarmLoop ==
    /\ warm.phase = "loop"
    /\ LET isrc == warm.batch[warm.i].ISRC
           exists == isrc \in DOMAIN cache
           expired == exists /\ After(now, cache[isrc].ExpiresAt)
           cached == exists /\ ~expired
       IN  /\ cache' = IF expired THEN [k \in DOMAIN cache \ {isrc} |-> cache[k]] ELSE cache
           /\ warm' = [warm EXCEPT !.workers[warm.i] = IF cached THEN "none" ELSE "queued",
                                   !.i = @ + 1,
                                   !.phase = IF warm.i = Len(warm.batch) THEN "wait" ELSE "loop"]
    /\ UNCHANGED <<lastCleanup, lastCleanupIsZero>>
    /\ WarmFrame

\* The task started for request k is in the given state.
WarmTask(k, state) ==
    k \in DOMAIN warm.workers /\ warm.workers[k] = state

\* semaphore <- struct{}{} on a channel without a limit: a faulty variant,
\* against which C21 is shown to depend on the capacity of the channel.
WarmAcquireUnbounded(k) ==
    /\ WarmTask(k, "queued")
    /\ warm' = [warm EXCEPT !.workers[k] = "running", !.sem = @ + 1]
    /\ UNCHANGED <<cache, lastCleanup, lastCleanupIsZero>>
    /\ UNCHANGED <<now, pc, getLocal, ret, sandboxVars, indexVars, run, fetch, req>>

\* semaphore <- struct{}{}
WarmAcquire(k) ==
    /\ WarmTask(k, "queued")
    /\ warm.sem < SemaphoreSize
    /\ warm' = [warm EXCEPT !.workers[k] = "running", !.sem = @ + 1]
    /\ UNCHANGED <<cache, lastCleanup, lastCleanupIsZero>>
    /\ WarmFrame

\* The task is through: the semaphore is released, wg.Done().
WarmDone(k, got) ==
    [warm EXCEPT !.workers[k] = "done", !.sem = @ - 1, !.got[k] = got]

\* A remote resolver call of task k has been made.
WarmCalled(k, found) ==
    [WarmDone(k, IF found THEN "found" ELSE "failed") EXCEPT !.remote = @ + 1]

\* preWarmTidalCache: SearchTrackByISRC, and SetTidal if it found the track.
preWarmTidalCache(k, found) ==
    /\ WarmTask(k, "running")
    /\ warm.batch[k].Service = "tidal"
    /\ warm' = WarmCalled(k, found)
    /\ LET isrc == warm.batch[k].ISRC
       IN  IF found
           THEN \E trackID \in TrackIDs :
                    Upsert(isrc, [EntryOrZero(isrc) EXCEPT !.TidalTrackID = trackID])
           ELSE UNCHANGED <<cache, lastCleanup, lastCleanupIsZero>>
    /\ WarmFrame

\* preWarmQobuzCache: SearchTrackByISRC, and SetQobuz if it found the track.
preWarmQobuzCache(k, found) ==
    /\ WarmTask(k, "running")
    /\ warm.batch[k].Service = "qobuz"
    /\ warm' = WarmCalled(k, found)
    /\ LET isrc == warm.batch[k].ISRC
       IN  IF found
           THEN \E trackID \in TrackIDs :
                    Upsert(isrc, [EntryOrZero(isrc) EXCEPT !.QobuzTrackID = trackID])
           ELSE UNCHANGED <<cache, lastCleanup, lastCleanupIsZero>>
    /\ WarmFrame

\* preWarmAmazonCache: CheckTrackAvailability, and SetAmazon if the track is
\* available on Amazon.
preWarmAmazonCache(k, available) ==
    /\ WarmTask(k, "running")
    /\ warm.batch[k].Service = "amazon"
    /\ warm' = WarmCalled(k, available)
    /\ LET isrc == warm.batch[k].ISRC
       IN  IF available
           THEN \E url \in AmazonIDs :
                    Upsert(isrc, [EntryOrZero(isrc) EXCEPT !.AmazonTrackID = url])
           ELSE UNCHANGED <<cache, lastCleanup, lastCleanupIsZero>>
    /\ WarmFrame

\* The switch finds no case for the service: the task ends.
WarmNoCase(k) ==
    /\ WarmTask(k, "running")
    /\ warm.batch[k].Service \notin {"tidal", "qobuz", "amazon"}
    /\ warm' = WarmDone(k, "nocase")
    /\ UNCHANGED <<cache, lastCleanup, lastCleanupIsZero>>
    /\ WarmFrame

\* wg.Wait() left out, the call returning once the loop is through: a
\* faulty variant, against which C22 is shown to depend on the waiting.
WarmReturnWithoutWaiting ==
    /\ warm.phase = "wait"
    /\ warm' = [warm EXCEPT !.phase = "idle"]
    /\ UNCHANGED <<cache, lastCleanup, lastCleanupIsZero>>
    /\ UNCHANGED <<now, pc, getLocal, ret, sandboxVars, indexVars, run, fetch, req>>

\* wg.Wait() returns and so does the call.
WarmReturn ==
    /\ warm.phase = "wait"
    /\ \A k \in DOMAIN warm.workers : warm.workers[k] \in {"none", "done"}
    /\ warm' = [warm EXCEPT !.phase = "idle"]
    /\ UNCHANGED <<cache, lastCleanup, lastCleanupIsZero>>
    /\ WarmFrame

WarmSpecInit ==
    /\ CacheInit /\ SandboxIdleInit /\ IndexIdleInit
    /\ warm = NoWarm /\ run = <<>> /\ fetch = <<>> /\ req = <<>>

WarmNext ==
    \/ \E requests \in Batches : PreWarmTrackCache(requests)
    \/ WarmLoop
    \/ \E k \in 1..MaxBatch : WarmAcquire(k)
    \/ \E k \in 1..MaxBatch, found \in BOOLEAN : preWarmTidalCache(k, found)
    \/ \E k \in 1..MaxBatch, found \in BOOLEAN : preWarmQobuzCache(k, found)
    \/ \E k \in 1..MaxBatch, available \in BOOLEAN : preWarmAmazonCache(k, available)
    \/ \E k \in 1..MaxBatch : WarmNoCase(k)
    \/ WarmReturn

WarmSpec == WarmSpecInit /\ [][WarmNext]_vars

\* C18 as stated: the second of two calls with the same batch makes no
\* remote resolver call, whatever the resolvers of the first call did.
C18_SecondPreWarmMakesNoRemoteCall ==
    warm.call = 2 => warm.remote = 0

\* C18: the second of two calls with the same batch makes no remote resolver
\* call when the first call left a live cache entry for every request.
C18_SecondPreWarmSkipsCachedRequests ==
    (warm.call = 2 /\ warm.allCached) => warm.remote = 0

\* The second call has returned, for a batch of two identifiers that the
\* first call resolved, without a remote call.
C18_Witness ==
    /\ warm.call = 2 /\ warm.phase = "idle" /\ warm.allCached
    /\ Len(warm.batch) = 2 /\ warm.batch[1].ISRC # warm.batch[2].ISRC
    /\ warm.remote = 0


(***************************************************************************)
(* Cover art and lyrics in parallel (FetchCoverAndLyricsParallel)          *)
(* Up to two tasks write their own fields of one shared result; the caller *)
(* waits for both. The downloads are remote: their outcomes are choices.   *)
(***************************************************************************)
CoverURLs == {<<>>, <<"c">>}
TrackNames == {<<"T", "1">>, <<"T", "2">>}
ArtistNames == {<<"A">>, <<"B">>}

\* Image bytes downloadCoverToMemory can deliver.
CoverBytes == {<<1>>, <<1, 2>>}

\* (*LyricsResponse)(nil) and the responses FetchLyricsAllSources can deliver:
\* without lines and with lines.
NilLyrics == [nil |-> TRUE, Lines |-> <<>>]
LyricsResponses == {[nil |-> FALSE, Lines |-> <<>>], [nil |-> FALSE, Lines |-> <<"la">>]}

CoverFailed == [type |-> "error", text |-> "cover download failed"]
LyricsFailed == [type |-> "error", text |-> "lyrics fetch failed"]
NoLyricsFound == [type |-> "*errors.errorString", text |-> "no lyrics found"]

\* What downloadCoverToMemory returns: the bytes, or an error.
CoverResults ==
    [data : CoverBytes, err : {NilErr}] \cup [data : {<<>>}, err : {CoverFailed}]

\* What FetchLyricsAllSources returns: a response or none, or an error.
LyricsResults ==
    [lyrics : LyricsResponses \cup {NilLyrics}, err : {NilErr}]
        \cup [lyrics : {NilLyrics}, err : {LyricsFailed}]

\* convertToLRCWithMetadata: the lines, headed by the track and the artist.
convertToLRCWithMetadata(lyrics, trackName, artistName) ==
    <<<<"ti", trackName>>, <<"ar", artistName>>>> \o
        [n \in 1..Len(lyrics.Lines) |-> <<"line", lyrics.Lines[n]>>]

\* &ParallelDownloadResult{}
ParallelDownloadResult ==
    [CoverData |-> <<>>, LyricsData |-> NilLyrics, LyricsLRC |-> <<>>,
     CoverErr |-> NilErr, LyricsErr |-> NilErr]

\* cover and lyrics are the states of the two tasks; coverGot and lyricsGot
\* keep what the downloads delivered to them.
NoFetch ==
    [phase |-> "idle", trackName |-> <<>>, artistName |-> <<>>,
     cover |-> "none", lyrics |-> "none",
     coverGot |-> [data |-> <<>>, err |-> NilErr],
     lyricsGot |-> [lyrics |-> NilLyrics, err |-> NilErr],
     result |-> ParallelDownloadResult]

FetchFrame ==
    UNCHANGED <<sandboxVars, cacheVars, indexVars, run, warm, req>>

\* FetchCoverAndLyricsParallel up to wg.Wait(): the tasks are started.
FetchCoverAndLyricsParallel(coverURL, trackName, artistName, embedLyrics) ==
    /\ fetch.phase = "idle"
    /\ fetch' = [NoFetch EXCEPT !.phase = "wait", !.trackName = trackName,
                                !.artistName = artistName,
                                !.cover = IF coverURL # <<>> THEN "running" ELSE "none",
                                !.lyrics = IF embedLyrics THEN "running" ELSE "none"]
    /\ FetchFrame

\* The cover task: downloadCoverToMemory, then the error or the data.
CoverTask(data, err) ==
    /\ fetch.cover = "running"
    /\ fetch' = [fetch EXCEPT !.cover = "done", !.coverGot = [data |-> data, err |-> err],
                              !.result = IF err # NilErr
                                         THEN [@ EXCEPT !.CoverErr = err]
                                         ELSE [@ EXCEPT !.CoverData = data]]
    /\ FetchFrame

\* The lyrics task: FetchLyricsAllSources, then the error, the lyrics with
\* their rendering, or "no lyrics found".
LyricsTask(lyrics, err) ==
    /\ fetch.lyrics = "running"
    /\ fetch' = [fetch EXCEPT !.lyrics = "done", !.lyricsGot = [lyrics |-> lyrics, err |-> err],
                              !.result =
                                  IF err # NilErr
                                  THEN [@ EXCEPT !.LyricsErr = err]
                                  ELSE IF ~lyrics.nil /\ Len(lyrics.Lines) > 0
                                  THEN [@ EXCEPT !.LyricsData = lyrics,
                                                 !.LyricsLRC = convertToLRCWithMetadata(
                                                     lyrics, fetch.trackName, fetch.artistName)]
                                  ELSE [@ EXCEPT !.LyricsErr = NoLyricsFound]]
    /\ FetchFrame

\* The caller returning the result without waiting for the tasks: a faulty
\* variant, against which C19 is shown to depend on wg.Wait().
FetchReturnWithoutWaiting ==
    /\ fetch.phase = "wait"
    /\ fetch' = [fetch EXCEPT !.phase = "returned"]
    /\ UNCHANGED <<sandboxVars, cacheVars, indexVars, run, warm, req>>

\* wg.Wait() returns, and the caller returns the result.
FetchReturn ==
    /\ fetch.phase = "wait"
    /\ fetch.cover # "running" /\ fetch.lyrics # "running"
    /\ fetch' = [fetch EXCEPT !.phase = "returned"]
    /\ FetchFrame

\* The caller goes on with the result.
FetchDone ==
    /\ fetch.phase = "returned"
    /\ fetch' = NoFetch
    /\ FetchFrame

FetchSpecInit ==
    /\ SandboxIdleInit /\ CacheIdleInit /\ IndexIdleInit
    /\ fetch = NoFetch /\ run = <<>> /\ warm = <<>> /\ req = <<>>

FetchNext ==
    \/ \E coverURL \in CoverURLs, trackName \in TrackNames, artistName \in ArtistNames,
          embedLyrics \in BOOLEAN :
           FetchCoverAndLyricsParallel(coverURL, trackName, artistName, embedLyrics)
    \/ \E got \in CoverResults : CoverTask(got.data, got.err)
    \/ \E got \in LyricsResults : LyricsTask(got.lyrics, got.err)
    \/ FetchReturn
    \/ FetchDone

FetchSpec == FetchSpecInit /\ [][FetchNext]_vars

\* The cover task delivered data: the result holds it and no cover error.
CoverReported ==
    IF fetch.coverGot.err = NilErr
    THEN fetch.result.CoverData = fetch.coverGot.data /\ fetch.result.CoverErr = NilErr
    ELSE fetch.result.CoverData = <<>> /\ fetch.result.CoverErr = fetch.coverGot.err

\* The lyrics task obtained lines: the result holds them, their rendering and
\* no lyrics error; otherwise it holds a lyrics error and no lyrics.
LyricsReported ==
    IF fetch.lyricsGot.err = NilErr /\ Len(fetch.lyricsGot.lyrics.Lines) > 0
    THEN /\ fetch.result.LyricsData = fetch.lyricsGot.lyrics
         /\ fetch.result.LyricsLRC =
                <<<<"ti", fetch.trackName>>, <<"ar", fetch.artistName>>>> \o
                    [n \in 1..Len(fetch.lyricsGot.lyrics.Lines) |->
                        <<"line", fetch.lyricsGot.lyrics.Lines[n]>>]
         /\ fetch.result.LyricsErr = NilErr
    ELSE /\ fetch.result.LyricsData = NilLyrics /\ fetch.result.LyricsLRC = <<>>
         /\ fetch.result.LyricsErr # NilErr

\* C19: when FetchCoverAndLyricsParallel returns, neither task is still
\* running, and the result reports each started task's own outcome whatever
\* the outcome of the other.
C19_BothTasksFinishedAndReportedIndependently ==
    fetch.phase = "returned" =>
        /\ fetch.cover # "running" /\ fetch.lyrics # "running"
        /\ fetch.cover = "done" => CoverReported
        /\ fetch.lyrics = "done" => LyricsReported

\* Returned with the cover downloaded and the lyrics fetch failed.
C19_Witness ==
    /\ fetch.phase = "returned"
    /\ fetch.cover = "done" /\ fetch.lyrics = "done"
    /\ fetch.coverGot.err = NilErr /\ fetch.lyricsGot.err # NilErr
    /\ fetch.result.CoverData # <<>> /\ fetch.result.CoverErr = NilErr
    /\ fetch.result.LyricsErr # NilErr


(***************************************************************************)
(* Requests with the retry against blocking (DoRequestWithCloudflareBypass)*)
(* The servers are outside the program: what a send yields is a choice     *)
(* among responses and errors. sends lists the clients a call has used,    *)
(* classified the errors it passed to CheckAndLogISPBlocking.              *)
(***************************************************************************)
UpperLetters ==
    <<"A", "B", "C", "D", "E", "F", "G", "H", "I", "J", "K", "L", "M",
      "N", "O", "P", "Q", "R", "S", "T", "U", "V", "W", "X", "Y", "Z">>
LowerLetters ==
    <<"a", "b", "c", "d", "e", "f", "g", "h", "i", "j", "k", "l", "m",
      "n", "o", "p", "q", "r", "s", "t", "u", "v", "w", "x", "y", "z">>

\* strings.ToLower
ToLower(str) ==
    [i \in DOMAIN str |->
        IF \E n \in DOMAIN UpperLetters : UpperLetters[n] = str[i]
        THEN LowerLetters[CHOOSE n \in DOMAIN UpperLetters : UpperLetters[n] = str[i]]
        ELSE str[i]]

\* strings.Contains
Contains(str, substr) ==
    \E i \in 0..(Len(str) - Len(substr)) : SubSeq(str, i + 1, i + Len(substr)) = substr

cloudflareMarkers ==
    <<<<"c", "l", "o", "u", "d", "f", "l", "a", "r", "e">>,
      <<"c", "f", "-", "r", "a", "y">>,
      <<"c", "h", "e", "c", "k", "i", "n", "g", " ", "y", "o", "u", "r", " ", "b", "r", "o", "w", "s", "e", "r">>,
      <<"p", "l", "e", "a", "s", "e", " ", "w", "a", "i", "t">>,
      <<"d", "d", "o", "s", " ", "p", "r", "o", "t", "e", "c", "t", "i", "o", "n">>,
      <<"r", "a", "y", " ", "i", "d">>,
      <<"e", "n", "a", "b", "l", "e", " ", "j", "a", "v", "a", "s", "c", "r", "i", "p", "t">>,
      <<"c", "h", "a", "l", "l", "e", "n", "g", "e", "-", "p", "l", "a", "t", "f", "o", "r", "m">>>>

\* The loop over the markers.
isCloudflare(body) ==
    \E n \in DOMAIN cloudflareMarkers : Contains(ToLower(body), cloudflareMarkers[n])

\* The test of the error text.
tlsRelated(errText) ==
    \/ Contains(ToLower(errText), <<"t", "l", "s">>)
    \/ Contains(ToLower(errText), <<"h", "a", "n", "d", "s", "h", "a", "k", "e">>)
    \/ Contains(ToLower(errText), <<"c", "e", "r", "t", "i", "f", "i", "c", "a", "t", "e">>)
    \/ Contains(ToLower(errText), <<"c", "o", "n", "n", "e", "c", "t", "i", "o", "n", " ", "r", "e", "s", "e", "t">>)

\* Bodies servers answer with.
ResponseBodies ==
    {<<>>,
     <<"R", "a", "y", " ", "I", "D", ":", " ", "7">>,
     <<"D", "e", "n", "i", "e", "d">>,
     <<"c", "f", "-", "r", "a", "y">>}

\* Texts of the errors a send can fail with.
ErrTexts ==
    {<<"T", "L", "S", " ", "t", "i", "m", "e", "o", "u", "t">>,
     <<"h", "a", "n", "d", "s", "h", "a", "k", "e", " ", "f", "a", "i", "l", "u", "r", "e">>,
     <<"b", "a", "d", " ", "c", "e", "r", "t", "i", "f", "i", "c", "a", "t", "e">>,
     <<"c", "o", "n", "n", "e", "c", "t", "i", "o", "n", " ", "r", "e", "s", "e", "t", " ", "b", "y", " ", "p", "e", "e", "r">>,
     <<"c", "o", "n", "n", "e", "c", "t", "i", "o", "n", " ", "r", "e", "f", "u", "s", "e", "d">>,
     <<"E", "O", "F">>}

StatusCodes == {200, 403, 503}

\* What client.Do yields: a response, whose body may fail to be read to its
\* end (Body is then what was read before the failure), or an error.
Responses ==
    [kind : {"response"}, StatusCode : StatusCodes, Header : {"h"}, Proto : {"HTTP/2.0"},
     Body : ResponseBodies, readErr : BOOLEAN]
SendErrors == [kind : {"error"}, text : ErrTexts]
Outcomes == Responses \cup SendErrors

NoOutcome == [kind |-> "none"]

\* The response made from bodyStr, the lowered text, in place of body: a
\* faulty variant, against which C27 is shown to depend on the bytes the
\* new body is made from.
RecreatedFromBodyStr(resp) ==
    [kind |-> "response", StatusCode |-> resp.StatusCode, Header |-> resp.Header,
     Proto |-> "", Body |-> ToLower(resp.Body), readErr |-> FALSE]

\* &http.Response{Status, StatusCode, Header, Body} made from the body read.
Recreated(resp) ==
    [kind |-> "response", StatusCode |-> resp.StatusCode, Header |-> resp.Header,
     Proto |-> "", Body |-> resp.Body, readErr |-> FALSE]

Builds == {"default", "ios"}

NoReq ==
    [phase |-> "idle", build |-> "", sends |-> <<>>, first |-> NoOutcome, out |-> NoOutcome,
     classified |-> <<>>]

ReqFrame ==
    UNCHANGED <<sandboxVars, cacheVars, indexVars, run, warm, fetch>>

\* The build for iOS: one send with the standard client.
DoRequestIOS(got) ==
    /\ req.phase = "idle"
    /\ req' = [NoReq EXCEPT !.phase = "returned", !.build = "ios",
                            !.sends = <<"sharedClient">>, !.first = got, !.out = got,
                            !.classified = IF got.kind = "error" THEN <<got.text>> ELSE <<>>]
    /\ ReqFrame

\* The first send answered by anything: the result is returned as it is, an
\* error after being passed to the classifier. A faulty variant, against
\* which C20 is shown to depend on the retry.
DoRequestNeverRetries(got) ==
    /\ req.phase = "idle"
    /\ req' = [NoReq EXCEPT !.phase = "returned", !.build = "default",
                            !.sends = <<"sharedClient">>, !.first = got, !.out = got,
                            !.classified = IF got.kind = "error" THEN <<got.text>> ELSE <<>>]
    /\ UNCHANGED <<sandboxVars, cacheVars, indexVars, run, warm, fetch>>

\* DoRequestWithCloudflareBypass up to the retry or the return: the send with
\* sharedClient answered by got, and what the function makes of it.
DoRequestWithCloudflareBypass(got) ==
    /\ req.phase = "idle"
    /\ LET sent == [NoReq EXCEPT !.build = "default", !.sends = <<"sharedClient">>,
                                 !.first = got]
           retry == [sent EXCEPT !.phase = "retry"]
       IN  req' =
               IF got.kind = "response"
               THEN IF got.StatusCode = 403 \/ got.StatusCode = 503
                    THEN IF ~got.readErr /\ isCloudflare(got.Body)
                         THEN retry
                         ELSE [sent EXCEPT !.phase = "returned", !.out = Recreated(got)]
                    ELSE [sent EXCEPT !.phase = "returned", !.out = got]
               ELSE IF tlsRelated(got.text)
                    THEN retry
                    ELSE [sent EXCEPT !.phase = "returned", !.out = got,
                                      !.classified = <<got.text>>]
    /\ ReqFrame

\* return cloudflareBypassClient.Do(reqCopy)
BypassRetry(got) ==
    /\ req.phase = "retry"
    /\ req' = [req EXCEPT !.phase = "returned", !.sends = Append(@, "cloudflareBypassClient"),
                          !.out = got]
    /\ ReqFrame

\* The caller goes on with the result.
ReqDone ==
    /\ req.phase = "returned"
    /\ req' = NoReq
    /\ ReqFrame

ReqSpecInit ==
    /\ SandboxIdleInit /\ CacheIdleInit /\ IndexIdleInit
    /\ req = NoReq /\ run = <<>> /\ warm = <<>> /\ fetch = <<>>

ReqNext ==
    \/ \E got \in Outcomes : DoRequestWithCloudflareBypass(got)
    \/ \E got \in Outcomes : DoRequestIOS(got)
    \/ \E got \in Outcomes : BypassRetry(got)
    \/ ReqDone

ReqSpec == ReqSpecInit /\ [][ReqNext]_vars

\* The first send was answered 403 or 503 with a block marker in what was
\* received of the body, or failed with an error text of the TLS kind.
Blocked(first) ==
    \/ /\ first.kind = "response"
       /\ first.StatusCode \in {403, 503}
       /\ isCloudflare(first.Body)
    \/ first.kind = "error" /\ tlsRelated(first.text)

\* C20 as stated: a returned call has sent once with the baseline client,
\* and once more with the alternate client exactly when the first send was
\* blocked; the result of the retry is what is returned.
C20_RetriesExactlyWhenBlocked ==
    req.phase = "returned" =>
        IF Blocked(req.first)
        THEN req.sends = <<"sharedClient", "cloudflareBypassClient">>
        ELSE req.sends = <<"sharedClient">>

\* C20: in the default build a call sends once with the baseline client, and
\* once more with the alternate client exactly when the first send was
\* blocked and, for a response, its body was read to the end; no call sends
\* more than twice, and in the build for iOS every call sends once.
C20_RetriesExactlyWhenBlockedAndBodyRead ==
    /\ Len(req.sends) <= 2
    /\ req.phase = "returned" =>
           IF /\ req.build = "default"
              /\ Blocked(req.first)
              /\ req.first.kind = "response" => ~req.first.readErr
           THEN req.sends = <<"sharedClient", "cloudflareBypassClient">>
           ELSE req.sends = <<"sharedClient">> /\ req.out.kind = req.first.kind

\* A call returned the failure of its retry after a 503 whose body holds a
\* marker only when letter case is ignored.
C20_Witness ==
    /\ req.phase = "returned" /\ req.build = "default"
    /\ req.first.kind = "response" /\ req.first.StatusCode = 503
    /\ ~req.first.readErr /\ isCloudflare(req.first.Body)
    /\ \A n \in DOMAIN cloudflareMarkers : ~Contains(req.first.Body, cloudflareMarkers[n])
    /\ req.sends = <<"sharedClient", "cloudflareBypassClient">>
    /\ req.out.kind = "error"


(***************************************************************************)
(* The semaphore of PreWarmTrackCache, with more requests than slots       *)
(***************************************************************************)
\* One request more than the semaphore holds.
SemBatch == SemaphoreSize + 1

SemBatches == [1..SemBatch -> [ISRC : WriterISRCs, Service : {"tidal", "deezer"}]]

SemNext ==
    \/ \E requests \in SemBatches : PreWarmTrackCache(requests)
    \/ WarmLoop
    \/ \E k \in 1..SemBatch : WarmAcquire(k)
    \/ \E k \in 1..SemBatch, found \in BOOLEAN : preWarmTidalCache(k, found)
    \/ \E k \in 1..SemBatch : WarmNoCase(k)
    \/ WarmReturn

SemSpec == WarmSpecInit /\ [][SemNext]_vars

\* The tasks that hold a slot: between the send on the semaphore and the
\* deferred receive, which is where the resolver is called.
InFlight ==
    {k \in DOMAIN warm.workers : warm.workers[k] = "running"}

\* C21: at most 3 resolver calls are in flight; the slots taken are exactly
\* those of the tasks whose resolver has not yet returned, so a call that
\* has returned left no slot taken.
C21_AtMostThreeResolversInFlight ==
    /\ Cardinality(InFlight) <= 3
    /\ warm.sem = Cardinality(InFlight)
    /\ warm.phase = "idle" => warm.sem = 0

\* Three resolvers are in flight and a fourth task waits for a slot.
C21_Witness ==
    /\ Cardinality(InFlight) = 3
    /\ \E k \in DOMAIN warm.workers : warm.workers[k] = "queued"


(***************************************************************************)
(* PreWarmTrackCache to its end: every task that can take a step takes it  *)
(* in the end, the scheduler leaving no runnable goroutine behind and      *)
(* every resolver returning.                                               *)
(***************************************************************************)
WarmStep ==
    \/ WarmLoop
    \/ \E k \in 1..MaxBatch : WarmAcquire(k)
    \/ \E k \in 1..MaxBatch, found \in BOOLEAN : preWarmTidalCache(k, found)
    \/ \E k \in 1..MaxBatch, found \in BOOLEAN : preWarmQobuzCache(k, found)
    \/ \E k \in 1..MaxBatch, available \in BOOLEAN : preWarmAmazonCache(k, available)
    \/ \E k \in 1..MaxBatch : WarmNoCase(k)
    \/ WarmReturn

WarmFairSpec == WarmSpec /\ WF_vars(WarmStep)

\* Task k ends in this step without its resolver having found the track.
EndsWithoutTrack(k) ==
    /\ warm.workers[k] = "running"
    /\ warm'.workers[k] = "done"
    /\ warm'.got[k] \in {"failed", "nocase"}

\* C22: every call of PreWarmTrackCache returns, no task it started is
\* unfinished when it has returned, and a task whose resolver failed or
\* whose service is unknown leaves the cache as it was.
C22_PreWarmReturnsAndFailuresWriteNothing ==
    /\ [](warm.phase = "idle" =>
             \A k \in DOMAIN warm.workers : warm.workers[k] \in {"none", "done"})
    /\ [][\A k \in DOMAIN warm.workers : EndsWithoutTrack(k) => cache' = cache]_vars
    /\ (warm.phase # "idle") ~> (warm.phase = "idle")

\* A call has returned after one resolver failed and the other succeeded:
\* the cache holds the entry of the second only.
C22_Witness ==
    /\ warm.phase = "idle" /\ warm.call = 1 /\ Len(warm.batch) = 2
    /\ warm.got[1] = "failed" /\ warm.got[2] = "found"
    /\ DOMAIN cache = {warm.batch[2].ISRC}
    /\ warm.batch[1].ISRC # warm.batch[2].ISRC


(***************************************************************************)
(* PreWarmCache: the entry point that takes the list of tracks             *)
(***************************************************************************)
\* PreWarmCache: requests is declared and never filled from tracksJSON;
\* the task is started with it and nil is returned.
PreWarmCache(tracksJSON) ==
    /\ warm = NoWarm
    /\ warm' = [warm EXCEPT !.tracks = tracksJSON, !.spawned = TRUE]
    /\ UNCHANGED <<cache, lastCleanup, lastCleanupIsZero>>
    /\ WarmFrame

\* go PreWarmTrackCache(requests), with the requests PreWarmCache holds.
PreWarmCacheTask ==
    /\ warm.spawned
    /\ warm.phase = "idle"
    /\ LET requests == <<>>
       IN  warm' = [WarmStarted(requests) EXCEPT !.spawned = FALSE]
    /\ UNCHANGED <<cache, lastCleanup, lastCleanupIsZero>>
    /\ WarmFrame

PreWarmNext ==
    \/ \E tracksJSON \in Batches \ {<<>>} : PreWarmCache(tracksJSON)
    \/ PreWarmCacheTask

PreWarmSpec == WarmSpecInit /\ [][PreWarmNext]_vars

\* The task PreWarmCache starts is scheduled in the end.
PreWarmFairSpec == PreWarmSpec /\ WF_vars(PreWarmCacheTask)

\* C23: after PreWarmCache is called with tracks of services that have a
\* resolver, none of them cached, the cache comes to hold an entry for
\* every identifier listed.
C23_PreWarmCacheFillsCache ==
    [](/\ warm.tracks # <<>>
       /\ \A k \in DOMAIN warm.tracks : warm.tracks[k].Service \in {"tidal", "qobuz", "amazon"}
       => <>(\A k \in DOMAIN warm.tracks : warm.tracks[k].ISRC \in DOMAIN cache))


(***************************************************************************)
(* The batch existence check (CheckFilesExistParallel)                     *)
(* A JSON text is modelled by what it decodes to: not valid, or an array   *)
(* of objects, each a function from the keys it has to their values.       *)
(***************************************************************************)
\* Longest list of tracks.
MaxTracks == 2

\* The objects callers send: with or without an identifier, with or
\* without the two display fields.
TrackObjects ==
    {[k \in keys |-> CASE k = "isrc" -> isrc
                       [] k = "track_name" -> <<"T">>
                       [] k = "artist_name" -> <<"A">>] :
        keys \in {{}, {"isrc"}, {"isrc", "track_name", "artist_name"}},
        isrc \in {<<"u", "s", "1">>, <<"q", "2">>}}

TracksJSONs ==
    {[valid |-> FALSE, array |-> <<>>]}
        \cup [valid : {TRUE}, array : UNION {[1..n -> TrackObjects] : n \in 0..MaxTracks}]

\* The string a decoded object has for a key; "" is what a field without
\* its key is left with.
StringOf(obj, key) ==
    IF key \in DOMAIN obj THEN obj[key] ELSE <<>>

\* json.Unmarshal into the slice of tracks
Unmarshal(array) ==
    [i \in DOMAIN array |-> [ISRC |-> StringOf(array[i], "isrc"),
                             TrackName |-> StringOf(array[i], "track_name"),
                             ArtistName |-> StringOf(array[i], "artist_name")]]

\* FileExistenceResult{}
FileExistenceResult ==
    [ISRC |-> <<>>, Exists |-> FALSE, FilePath |-> "", TrackName |-> <<>>, ArtistName |-> <<>>]

\* json.Marshal of the results: file_path, track_name and artist_name are
\* left out when empty.
Marshal(results) ==
    [i \in DOMAIN results |->
        LET r == results[i]
            keys == {"isrc", "exists"}
                        \cup (IF r.FilePath # "" THEN {"file_path"} ELSE {})
                        \cup (IF r.TrackName # <<>> THEN {"track_name"} ELSE {})
                        \cup (IF r.ArtistName # <<>> THEN {"artist_name"} ELSE {})
        IN  [k \in keys |-> CASE k = "isrc" -> r.ISRC
                              [] k = "exists" -> r.Exists
                              [] k = "file_path" -> r.FilePath
                              [] k = "track_name" -> r.TrackName
                              [] k = "artist_name" -> r.ArtistName]]

BatchFrame ==
    /\ UNCHANGED <<now, disk, isrcIndexCache, buildLock, sandboxVars, restVars>>
    /\ UNCHANGED <<cache, lastCleanup, lastCleanupIsZero, pc, getLocal, ret>>

\* CheckFilesExistParallel begins: the tracks are decoded, the results
\* slice is made, and GetISRCIndex is called.
CheckFilesExistParallel(t, outputDir, tracksJSON) ==
    /\ IReady(t, "idle")
    /\ LET loc == [NoLocal EXCEPT !.op = "CheckFilesExistParallel", !.outputDir = outputDir,
                                  !.input = tracksJSON]
       IN  IF ~tracksJSON.valid
           THEN Return(t, [IReturned(t, loc) EXCEPT !.err = "failed to parse tracks JSON"])
           ELSE Goto(t, "fast", [loc EXCEPT !.tracks = Unmarshal(tracksJSON.array),
                                            !.results = [i \in DOMAIN tracksJSON.array |->
                                                            FileExistenceResult]])
    /\ UNCHANGED heap
    /\ BatchFrame

\* The task of entry i writing its result into the place of the next
\* entry: a faulty variant, against which C24 is shown to depend on the
\* index each task is given.
BatchEntryMisplaced(t, i) ==
    /\ IReady(t, "tasks")
    /\ i \in DOMAIN ilocal[t].tracks /\ i \notin ilocal[t].done
    /\ LET loc == ilocal[t]
           track == loc.tracks[i]
           at == (i % Len(loc.tracks)) + 1
           result == [FileExistenceResult EXCEPT !.ISRC = track.ISRC,
                                                 !.TrackName = track.TrackName,
                                                 !.ArtistName = track.ArtistName]
       IN  Goto(t, "tasks", [loc EXCEPT !.results[at] = result, !.done = @ \cup {i}])
    /\ UNCHANGED heap
    /\ UNCHANGED <<now, disk, isrcIndexCache, buildLock, sandboxVars, restVars>>
    /\ UNCHANGED <<cache, lastCleanup, lastCleanupIsZero, pc, getLocal, ret>>

\* The task of entry i: the result with the fields of the track, the lookup
\* in the index, results[i] = result.
BatchEntry(t, i) ==
    /\ IReady(t, "tasks")
    /\ i \in DOMAIN ilocal[t].tracks /\ i \notin ilocal[t].done
    /\ LET loc == ilocal[t]
           track == loc.tracks[i]
           found == lookup(heap[loc.idx].index, track.ISRC)
           result == [FileExistenceResult EXCEPT !.ISRC = track.ISRC,
                                                 !.TrackName = track.TrackName,
                                                 !.ArtistName = track.ArtistName]
           looked == IF track.ISRC # <<>> /\ found.exists
                     THEN [result EXCEPT !.Exists = TRUE, !.FilePath = found.path]
                     ELSE result
       IN  Goto(t, "tasks", [loc EXCEPT !.results[i] = looked, !.done = @ \cup {i}])
    /\ UNCHANGED heap
    /\ BatchFrame

\* wg.Wait() returns; the results are encoded and returned.
BatchReturn(t) ==
    /\ IReady(t, "tasks")
    /\ ilocal[t].done = DOMAIN ilocal[t].tracks
    /\ Return(t, [IReturned(t, ilocal[t]) EXCEPT !.json = Marshal(ilocal[t].results)])
    /\ heap' = Collect(heap, isrcIndexCache, ilocal', iret')
    /\ BatchFrame

\* The second file of the directory changes while no call is in progress.
DiskChangeBetweenCalls(st) ==
    /\ \A t \in Tasks : ipc[t] = "idle"
    /\ DiskChange(Files[2], st)

BatchNext ==
    \/ \E d \in IndexDirs, tracksJSON \in TracksJSONs :
           CheckFilesExistParallel("t1", d, tracksJSON)
    \/ GetFast("t1")
    \/ GetLock("t1")
    \/ GetCheck("t1")
    \/ BuildWalk("t1")
    \/ BuildStore("t1")
    \/ \E i \in 1..MaxTracks : BatchEntry("t1", i)
    \/ BatchReturn("t1")
    \/ \E st \in DiskStates(Files[2]) : DiskChangeBetweenCalls(st)
    \/ IndexTakeReturn

BatchSpec == IndexSpecInit /\ [][BatchNext]_vars

\* Result i of the returned array is the one of input i.
BelongsTo(result, track) ==
    /\ StringOf(result, "isrc") = StringOf(track, "isrc")
    /\ StringOf(result, "track_name") = StringOf(track, "track_name")
    /\ StringOf(result, "artist_name") = StringOf(track, "artist_name")

\* C24: what CheckFilesExistParallel returns for a list it could decode has
\* one result per track, result i with the identifier, track name and artist
\* name of track i; and no step of a per-entry task changes an index or
\* the cache of indexes.
C24_OneResultPerTrackInOrder ==
    /\ [](iret.op = "CheckFilesExistParallel" /\ iret.err = "" =>
             /\ Len(iret.json) = Len(iret.input.array)
             /\ \A i \in DOMAIN iret.json : BelongsTo(iret.json[i], iret.input.array[i]))
    /\ [][\A t \in Tasks : ilocal'[t].done # ilocal[t].done /\ ilocal'[t].done # {} =>
              heap' = heap /\ isrcIndexCache' = isrcIndexCache]_vars

\* Returned for two different tracks, the second of which is in the index.
C24_Witness ==
    /\ iret.op = "CheckFilesExistParallel" /\ iret.err = ""
    /\ Len(iret.json) = 2
    /\ StringOf(iret.json[1], "isrc") # StringOf(iret.json[2], "isrc")
    /\ StringOf(iret.json[1], "track_name") # StringOf(iret.json[2], "track_name")
    /\ ~iret.json[1]["exists"] /\ iret.json[2]["exists"]


(***************************************************************************)
(* RunWithTimeout under fair scheduling                                    *)
(* The runtime fires a timer that is due and runs the caller when a case   *)
(* of its select is ready, and time passes. Nothing is assumed of the      *)
(* execution task: the engine may never return.                            *)
(***************************************************************************)
Forced == Result("", TimeoutErr("execution timeout exceeded (force)"))

\* The steps of the caller, of the timers and of the clock.
CallerStep ==
    \/ DeadlineFires
    \/ SelectResult
    \/ SelectDeadline
    \/ GraceFires
    \/ GraceResult
    \/ GraceTimeout
    \/ RunTick

RunFairSpec == RunSpec /\ WF_vars(CallerStep)

\* C25: every call of RunWithTimeout returns; while it waits after the
\* deadline the interrupt has been signalled; and when the second wait ends
\* with nothing delivered, what is returned is the forced Timeout, whether
\* or not the task has ended.
C25_RunWithTimeoutAlwaysReturns ==
    /\ (run.main \in {"select", "grace"}) ~> (run.main = "returned")
    /\ [](run.main = "grace" => run.interrupted /\ run.vmInterrupted)
    /\ [][run.main = "grace" /\ run'.main = "returned" /\ run.resultCh = <<>> =>
              run'.ret = Forced /\ IsTimeoutError(run'.ret.err)
                  /\ run.elapsed >= run.timeout + Grace]_vars

\* Forced Timeout returned while the task is still running.
C25_Witness ==
    /\ run.main = "returned"
    /\ run.ret = Forced
    /\ run.exec = "running"
    /\ run.vmInterrupted


(***************************************************************************)
(* RunWithTimeoutAndRecover: calls on one engine, one after the other      *)
(* The interrupt flag is the engine's and outlives the call.               *)
(***************************************************************************)
\* RunWithTimeoutAndRecover is called: RunWithTimeout begins, on the engine
\* as the last call left it.
RunWithTimeoutAndRecover(script, timeout) ==
    /\ run.main = "idle"
    /\ run' = [NoRun EXCEPT !.main = "select", !.exec = "running", !.script = script,
                            !.timeout = IF timeout <= 0 THEN DefaultJSTimeout ELSE timeout,
                            !.recover = TRUE, !.vmInterrupted = run.vmInterrupted]
    /\ RunFrame

\* RunWithTimeoutAndRecover going on without clearing the flag: a faulty
\* variant, against which C26 is shown to depend on vm.ClearInterrupt().
ClearInterruptSkipped ==
    /\ run.main = "returned"
    /\ run.recover
    /\ run' = [run EXCEPT !.main = "cleared"]
    /\ RunFrame

\* RunWithTimeout has returned: vm.ClearInterrupt()
ClearInterrupt ==
    /\ run.main = "returned"
    /\ run.recover
    /\ run' = [run EXCEPT !.main = "cleared", !.vmInterrupted = FALSE]
    /\ RunFrame

\* RunWithTimeoutAndRecover returns; the engine is kept for the next call.
RecoverReturn ==
    /\ run.main = "cleared"
    /\ run' = [NoRun EXCEPT !.vmInterrupted = run.vmInterrupted]
    /\ RunFrame

RecoverNext ==
    \/ \E script \in Scripts, timeout \in Timeouts : RunWithTimeoutAndRecover(script, timeout)
    \/ ExecReturn
    \/ ExecPanic
    \/ ExecRecover
    \/ DeadlineFires
    \/ SelectResult
    \/ SelectDeadline
    \/ GraceFires
    \/ GraceResult
    \/ GraceTimeout
    \/ RunTick
    \/ ClearInterrupt
    \/ RecoverReturn

RecoverSpec == RunSpecInit /\ [][RecoverNext]_vars

\* C26: when RunWithTimeoutAndRecover returns, and between calls, the
\* interrupt flag of the engine is clear; and a call whose own deadline has
\* not passed is never handed the engine's interruption.
C26_InterruptClearOnReturn ==
    /\ run.main \in {"cleared", "idle"} => ~run.vmInterrupted
    /\ run.main \in {"select", "returned"} /\ ~run.deadlineFired =>
           /\ ~run.vmInterrupted
           /\ run.exec # "panicking" \/ run.script = "panics"
           /\ \A i \in DOMAIN run.resultCh : run.resultCh[i].err # InterruptedErr
           /\ run.ret.err # InterruptedErr

\* Returned after a forced Timeout, the flag cleared.
C26_Witness ==
    /\ run.main = "cleared"
    /\ run.ret = Forced
    /\ ~run.vmInterrupted


(***************************************************************************)
(* What DoRequestWithCloudflareBypass returns                              *)
(***************************************************************************)
\* C27: a returned call whose first send was answered 403 or 503 with a
\* body holding no block marker, letter case ignored, has sent once, and
\* returns a response with the status code, the headers and the body bytes
\* of that answer.
C27_UnblockedResponseReturnedUnchanged ==
    (/\ req.phase = "returned"
     /\ req.first.kind = "response"
     /\ req.first.StatusCode \in {403, 503}
     /\ ~isCloudflare(req.first.Body)) =>
        /\ req.sends = <<"sharedClient">>
        /\ req.out.kind = "response"
        /\ req.out.StatusCode = req.first.StatusCode
        /\ req.out.Header = req.first.Header
        /\ req.out.Body = req.first.Body

\* The default build returned the response it made anew from a 403 whose
\* body has capital letters and no marker.
C27_Witness ==
    /\ req.phase = "returned" /\ req.build = "default"
    /\ req.first.kind = "response" /\ req.first.StatusCode = 403
    /\ ~req.first.readErr
    /\ ~isCloudflare(req.first.Body)
    /\ ToLower(req.first.Body) # req.first.Body
    /\ req.out = Recreated(req.first)

\* C28: a returned call that returns an error has passed that error to
\* CheckAndLogISPBlocking.
C28_ReturnedErrorWasClassified ==
    (req.phase = "returned" /\ req.out.kind = "error") =>
        \E n \in DOMAIN req.classified : req.classified[n] = req.out.text


(***************************************************************************)
(* The setters of the track identifier cache                               *)
(* One task writes while the clock advances by less than the cleanup       *)
(* interval or by the time to live, so that a setter finds expired entries *)
(* both when a sweep is due and when it is not.                            *)
(***************************************************************************)
SweepTickSteps == {CleanupInterval - 1, TTL}

SweepNext ==
    \/ \E isrc \in ISRCs, id \in TrackIDs : SetTidal("t1", isrc, id)
    \/ \E isrc \in ISRCs, id \in TrackIDs : SetQobuz("t1", isrc, id)
    \/ \E isrc \in ISRCs, id \in AmazonIDs : SetAmazon("t1", isrc, id)
    \/ \E d \in SweepTickSteps : Tick(d)

SweepSpec == CacheSpecInit /\ [][SweepNext]_vars

\* This step is a call of the setter of the given catalog for isrc and id.
SetStep(catalog, isrc, id) ==
    \E t \in Tasks :
        CASE catalog = "tidal" -> SetTidal(t, isrc, id)
          [] catalog = "qobuz" -> SetQobuz(t, isrc, id)
          [] catalog = "amazon" -> SetAmazon(t, isrc, id)

Catalogs == {"tidal", "qobuz", "amazon"}

\* The calls of the setters: a catalog and an id of its kind.
SetterCalls == ({"tidal", "qobuz"} \X TrackIDs) \cup ({"amazon"} \X AmazonIDs)

\* C29: a call of a setter at time now sweeps exactly when no sweep has
\* happened or at least 5 minutes have passed since the last one: then the
\* cache holds no entry whose expiry is before now and the time of the last
\* sweep is now; otherwise that time stays and every entry other than the
\* one written stays as it was.
C29_SetterSweepsWhenDue ==
    [][\A call \in SetterCalls, isrc \in ISRCs :
           SetStep(call[1], isrc, call[2]) =>
               IF lastCleanupIsZero \/ now - lastCleanup >= 5
               THEN /\ \A k \in DOMAIN cache' : ~(cache'[k].ExpiresAt < now)
                    /\ lastCleanup' = now /\ ~lastCleanupIsZero'
               ELSE /\ lastCleanup' = lastCleanup /\ lastCleanupIsZero' = lastCleanupIsZero
                    /\ \A k \in DOMAIN cache \ {isrc} :
                           k \in DOMAIN cache' /\ cache'[k] = cache[k]]_vars

\* After a setter that did not sweep: the other entry is held expired, less
\* than 5 minutes after the last sweep.
C29_Witness ==
    /\ ~lastCleanupIsZero /\ now - lastCleanup < 5 /\ now > lastCleanup
    /\ \E k1 \in DOMAIN cache, k2 \in DOMAIN cache :
           cache[k1].ExpiresAt < now /\ cache[k2].ExpiresAt = now + TTL

\* The field of a catalog in an entry.
FieldOf(entry, catalog) ==
    CASE catalog = "tidal" -> entry.TidalTrackID
      [] catalog = "qobuz" -> entry.QobuzTrackID
      [] catalog = "amazon" -> entry.AmazonTrackID

\* C30: after a call of the setter of one catalog for isrc and id the cache
\* holds an entry for isrc whose field of that catalog is id, whose fields
\* of the other two catalogs are what they were (zero if there was no
\* entry), and whose expiry is the time of the call plus 30 minutes.
C30_SetterWritesOneField ==
    [][\A call \in SetterCalls, isrc \in ISRCs :
           SetStep(call[1], isrc, call[2]) =>
               /\ isrc \in DOMAIN cache'
               /\ FieldOf(cache'[isrc], call[1]) = call[2]
               /\ \A other \in Catalogs \ {call[1]} :
                      FieldOf(cache'[isrc], other) =
                          IF isrc \in DOMAIN cache THEN FieldOf(cache[isrc], other)
                          ELSE IF other = "amazon" THEN "" ELSE 0
               /\ cache'[isrc].ExpiresAt = now + 30]_vars

\* An entry holds the ids of all three catalogs, the last written after
\* the clock had advanced.
C30_Witness ==
    \E k \in DOMAIN cache :
        /\ cache[k].TidalTrackID # 0 /\ cache[k].QobuzTrackID # 0 /\ cache[k].AmazonTrackID # ""
        /\ cache[k].ExpiresAt = now + TTL
        /\ now > 0


(***************************************************************************)
(* Invalidation while the index of the directory is being built            *)
(* One task asks for the index; the other invalidates the directory and    *)
(* then asks for the index itself.                                         *)
(***************************************************************************)
Invalidator == "t2"

InvalNext ==
    \/ \E t \in Tasks : GetISRCIndex(t, RaceDir)
    \/ InvalidateISRCCache(Invalidator, RaceDir)
    \/ \E t \in Tasks : GetFast(t)
    \/ \E t \in Tasks : GetLock(t)
    \/ \E t \in Tasks : GetCheck(t)
    \/ \E t \in Tasks : BuildWalk(t)
    \/ \E t \in Tasks : BuildStore(t)
    \/ \E st \in DiskStates(Files[2]) : DiskChange(Files[2], st)
    \/ IndexTakeReturn

InvalSpec == IndexSpecInit /\ [][InvalNext]_vars

\* C31 (as claimed; refuted under InvalSpec): the task that invalidates the
\* directory, always before it calls GetISRCIndex, is never given an index
\* whose walk began before an invalidation.
C31_NoIndexFromBeforeInvalidation ==
    (iret.task = Invalidator /\ iret.op = "GetISRCIndex") =>
        ~heap[iret.idx].invalidated


(***************************************************************************)
(* A lookup after AddToISRCIndex                                           *)
(* The adder makes one add and keeps what it added; the reader asks for    *)
(* the index before the add, or not, and after it, and looks the           *)
(* identifier up. Files change and time passes in between.                 *)
(***************************************************************************)
Adder == "t1"
Reader == "t2"

\* AddToISRCIndex has returned: the adder keeps its arguments and the index
\* it added to, NoIdx if none was cached.
HoldAdd(t) ==
    /\ iret.task = t
    /\ iret.op = "AddToISRCIndex"
    /\ iret.did \in {"add", "no index"}
    /\ ipc[t] = "idle"
    /\ ipc' = [ipc EXCEPT ![t] = "added"]
    /\ ilocal' = [ilocal EXCEPT ![t] = [NoLocal EXCEPT !.op = "AddToISRCIndex",
                                                       !.outputDir = iret.outputDir,
                                                       !.isrc = iret.isrc,
                                                       !.filePath = iret.filePath,
                                                       !.idx = iret.idx]]
    /\ iret' = NoIRet
    /\ UNCHANGED <<now, disk, heap, isrcIndexCache, buildLock, sandboxVars, restVars>>
    /\ UNCHANGED <<cache, lastCleanup, lastCleanupIsZero, pc, getLocal, ret>>

\* The adder lets go of what it kept.
ForgetAdd(t) ==
    /\ IReady(t, "added")
    /\ Goto(t, "idle", NoLocal)
    /\ heap' = Collect(heap, isrcIndexCache, ilocal', iret')
    /\ UNCHANGED <<now, disk, isrcIndexCache, buildLock, sandboxVars, restVars>>
    /\ UNCHANGED <<cache, lastCleanup, lastCleanupIsZero, pc, getLocal, ret>>

\* GetISRCIndex called by the reader before an add.
GetBeforeAdd ==
    /\ ipc[Adder] = "idle"
    /\ GetISRCIndex(Reader, RaceDir)

\* AddToISRCIndex called with non-empty arguments while the reader is idle.
AddWhenQuiet(isrc, filePath) ==
    /\ ipc[Reader] = "idle"
    /\ AddToISRCIndex(Adder, RaceDir, isrc, filePath)

\* GetISRCIndex called by the reader after the add has returned.
GetAfterAdd ==
    /\ ipc[Adder] = "added"
    /\ GetISRCIndex(Reader, RaceDir)

AddNext ==
    \/ GetBeforeAdd
    \/ \E isrc \in ISRCs, filePath \in FileSet : AddWhenQuiet(isrc, filePath)
    \/ AddToIndex(Adder)
    \/ HoldAdd(Adder)
    \/ GetAfterAdd
    \/ GetFast(Reader)
    \/ GetLock(Reader)
    \/ GetCheck(Reader)
    \/ BuildWalk(Reader)
    \/ BuildStore(Reader)
    \/ \E isrc \in ISRCs : Lookup(Reader, isrc)
    \/ ForgetAdd(Adder)
    \/ \E st \in DiskStates(Files[2]) : DiskChange(Files[2], st)
    \/ IndexTick
    \/ IndexTakeReturn

AddSpec == IndexSpecInit /\ [][AddNext]_vars

\* The reader has looked up, after the add, the identifier added.
LookedUpAdded ==
    /\ ipc[Adder] = "added"
    /\ iret.task = Reader /\ iret.op = "Lookup"
    /\ ToUpper(iret.isrc) = ToUpper(ilocal[Adder].isrc)

\* C32 as stated: a lookup after the add, in any letter case of the
\* identifier added, returns the path added, whether or not an index was
\* cached when the add was made.
C32_LookupAfterAddReturnsPath ==
    LookedUpAdded => iret.exists /\ iret.filePath = ilocal[Adder].filePath

\* C32: the add walks no directory. When an index was cached at the add and
\* GetISRCIndex returns that index, it returns it without a walk and a
\* lookup on it, in any letter case of the identifier added, returns the
\* path added. When no index was cached at the add, the add has written
\* nothing and has cached no index.
C32_LookupAfterAddOnCachedIndex ==
    /\ iret.op = "AddToISRCIndex" => ~iret.walked
    /\ (iret.op = "AddToISRCIndex" /\ iret.did = "no index") =>
           /\ isrcIndexCache[iret.outputDir] = NoIdx
           /\ \A i \in IdxIds : ~heap[i].live
    /\ (/\ ipc[Adder] = "added" /\ iret.task = Reader /\ iret.op = "GetISRCIndex"
        /\ ilocal[Adder].idx # NoIdx /\ iret.idx = ilocal[Adder].idx) =>
                    /\ ~iret.walked
                    /\ \A isrc \in ISRCs :
                           ToUpper(isrc) = ToUpper(ilocal[Adder].isrc) =>
                               lookup(heap[iret.idx].index, isrc) =
                                   [path |-> ilocal[Adder].filePath, exists |-> TRUE]
    /\ (LookedUpAdded /\ iret.idx = ilocal[Adder].idx) =>
           iret.exists /\ iret.filePath = ilocal[Adder].filePath

\* The identifier was added in one letter case, with the path of a file
\* the walk had not entered under it, and looked up in the other on the
\* index it was added to.
C32_Witness ==
    /\ LookedUpAdded
    /\ iret.idx = ilocal[Adder].idx
    /\ iret.isrc # ilocal[Adder].isrc
    /\ iret.filePath = ilocal[Adder].filePath
    /\ disk[iret.filePath].kind = "absent"


(***************************************************************************)
(* The copy loop of fileDownload                                           *)
(***************************************************************************)
\* The events of one kind in a log, in their order.
RECURSIVE EventsOf(_, _)
EventsOf(log, ev) ==
    IF log = <<>> THEN <<>>
    ELSE IF Head(log).ev = ev THEN <<Head(log)>> \o EventsOf(Tail(log), ev)
    ELSE EventsOf(Tail(log), ev)

\* The bytes the body reads delivered: every chunk read is handed to one write.
RECURSIVE BytesRead(_)
BytesRead(writes) ==
    IF writes = <<>> THEN 0 ELSE Head(writes).arg.nr + BytesRead(Tail(writes))

\* C33: in a download, the byte counts passed to onProgress are strictly
\* increasing, onProgress is called only with a content length above zero,
\* a successful download returns as size the sum of the lengths of the
\* chunks read, and a download with a write that stored fewer bytes than
\* were read, or failed, returns an error.
C33_DownloadCountsBytes ==
    fcall.op = "download" =>
        LET progress == EventsOf(fcall.log, "onProgress")
            writes == EventsOf(fcall.log, "File.Write")
        IN  /\ \A i \in DOMAIN progress, j \in DOMAIN progress :
                   i < j => progress[i].arg.written < progress[j].arg.written
            /\ \A i \in DOMAIN progress : progress[i].arg.total > 0
            /\ fcall.result.success => fcall.result.size = BytesRead(writes)
            /\ (\E i \in DOMAIN writes : writes[i].arg.nw < writes[i].arg.nr \/ ~writes[i].ok) =>
                   ~fcall.result.success /\ fcall.result.error # ""

\* A download of three chunks succeeded and reported progress after each.
C33_Witness ==
    /\ fcall.op = "download"
    /\ fcall.result.success
    /\ Len(EventsOf(fcall.log, "onProgress")) = 3
    /\ fcall.result.size = BytesRead(EventsOf(fcall.log, "File.Write"))
    /\ fcall.result.size > 3

\* A download ended with the error of a short write after a chunk had been
\* written and reported.
C33_ShortWriteReached ==
    /\ fcall.op = "download"
    /\ fcall.result.error = "short write"
    /\ Len(EventsOf(fcall.log, "onProgress")) = 1


(***************************************************************************)
(* The registered directories                                              *)
(***************************************************************************)
\* C34 (as claimed; refuted under PathSpec): after any sequence of
\* SetAllowedDownloadDirs and AddAllowedDownloadDir calls every registered
\* directory is an absolute path.
C34_AllowedDirsAreAbsolute ==
    \A i \in 1..Len(allowedDownloadDirs) : IsAbs(allowedDownloadDirs[i])


(***************************************************************************)
(* The removal made by TrackIDCache.Get                                    *)
(***************************************************************************)
\* C35: the write-locked section of Get removes no entry other than the one
\* of its key, and that one only if it is expired at that moment; every
\* entry it leaves is as it was, so that the entry a setter has refreshed
\* since Get saw it expired stays.
C35_GetRemovesOnlyExpired ==
    [][\A t \in Tasks :
           (pc[t] = "get_lock" /\ pc'[t] = "idle") =>
               /\ \A k \in DOMAIN cache \ DOMAIN cache' :
                      k = getLocal[t] /\ cache[k].ExpiresAt < now
               /\ \A k \in DOMAIN cache' : k \in DOMAIN cache /\ cache'[k] = cache[k]]_vars

\* Get saw the entry expired, a setter refreshed it, and Get has returned
\* not-found having left the refreshed entry in the cache.
C35_Witness ==
    /\ ret.op = "Get"
    /\ ret.via = "expired"
    /\ ret.isrc \in DOMAIN cache
    /\ cache[ret.isrc].ExpiresAt = now + TTL
    /\ now > 0


(***************************************************************************)
(* The removal of a stale entry while the index is added to                *)
(* One task checks identifiers, the other adds them, files come and go.    *)
(***************************************************************************)
RemoveNext ==
    \/ \E isrc \in ISRCs : CheckISRCExists("t1", RaceDir, isrc)
    \/ GetFast("t1")
    \/ GetLock("t1")
    \/ GetCheck("t1")
    \/ BuildWalk("t1")
    \/ BuildStore("t1")
    \/ CheckLookup("t1")
    \/ CheckStat("t1")
    \/ CheckRemove("t1")
    \/ \E isrc \in ISRCs, filePath \in FileSet : AddToISRCIndex("t2", RaceDir, isrc, filePath)
    \/ AddToIndex("t2")
    \/ \E path \in FileSet : \E st \in DiskStates(path) : DiskChange(path, st)
    \/ IndexTakeReturn

RemoveSpec == IndexSpecInit /\ [][RemoveNext]_vars

\* C36 (as claimed; refuted under RemoveSpec): the removal made by
\* checkISRCExistsInternal takes from the index only an entry whose path is
\* the one whose file it found missing.
C36_RemovesOnlyThePathFoundMissing ==
    [][\A t \in Tasks :
           (ipc[t] = "remove" /\ ipc'[t] = "idle") =>
               LET index == heap[ilocal[t].idx].index
                   after == heap'[ilocal[t].idx].index
               IN  \A k \in DOMAIN index \ DOMAIN after : index[k] = ilocal[t].filePath]_vars


(***************************************************************************)
(* An add while the index of the directory is being rebuilt                *)
(* The reader asks for the index as time passes; the adder reports a file  *)
(* that is on disk under its identifier, while the reader is between the   *)
(* walk and the store of a build, and keeps what it added.                 *)
(***************************************************************************)
\* AddToISRCIndex for a file that has been produced, called while the
\* reader's build has walked the directory and not yet stored its index.
AddDuringBuild(isrc, filePath) ==
    /\ ipc[Reader] = "store"
    /\ disk[filePath].kind = "flac"
    /\ ToUpper(disk[filePath].isrc) = ToUpper(isrc)
    /\ AddToISRCIndex(Adder, RaceDir, isrc, filePath)

LostAddNext ==
    \/ GetISRCIndex(Reader, RaceDir)
    \/ GetFast(Reader)
    \/ GetLock(Reader)
    \/ GetCheck(Reader)
    \/ BuildWalk(Reader)
    \/ BuildStore(Reader)
    \/ \E isrc \in ISRCs, filePath \in FileSet : AddDuringBuild(isrc, filePath)
    \/ AddToIndex(Adder)
    \/ HoldAdd(Adder)
    \/ ForgetAdd(Adder)
    \/ \E path \in FileSet : \E st \in DiskStates(path) : DiskChange(path, st)
    \/ IndexTick
    \/ IndexTakeReturn

LostAddSpec == IndexSpecInit /\ [][LostAddNext]_vars

\* C37 (as claimed; refuted under LostAddSpec): the index GetISRCIndex
\* returns after an add made during a rebuild holds the identifier added.
C37_AddDuringRebuildIsKept ==
    (ipc[Adder] = "added" /\ iret.task = Reader /\ iret.op = "GetISRCIndex") =>
        lookup(heap[iret.idx].index, ilocal[Adder].isrc).exists

(***************************************************************************)
(* The execution task after RunWithTimeoutAndRecover has cleared the flag  *)
(* One call on an engine, followed to the end of its task. The task is     *)
(* scheduled fairly and an engine whose flag stays set comes to its next   *)
(* check; the caller and its timers run as under RunFairSpec.              *)
(***************************************************************************)
\* The steps of the execution task.
ExecStep ==
    \/ ExecReturn
    \/ ExecPanic
    \/ ExecRecover

LeftoverNext ==
    \/ \E script \in Scripts, timeout \in Timeouts : RunWithTimeoutAndRecover(script, timeout)
    \/ ExecReturn
    \/ ExecPanic
    \/ ExecRecover
    \/ DeadlineFires
    \/ SelectResult
    \/ SelectDeadline
    \/ GraceFires
    \/ GraceResult
    \/ GraceTimeout
    \/ RunTick
    \/ ClearInterrupt

LeftoverSpec ==
    /\ RunSpecInit
    /\ [][LeftoverNext]_vars
    /\ WF_vars(CallerStep \/ ClearInterrupt)
    /\ WF_vars(ExecStep)

\* C38: a task whose engine has been signalled with an interrupt eventually
\* stops running, also when the caller gave up after the grace period and
\* cleared the flag.
C38_InterruptedTaskStops ==
    (run.recover /\ run.interrupted /\ run.exec = "running") ~> (run.exec # "running")

(***************************************************************************)
(* The batch check against the file system                                 *)
(***************************************************************************)
\* C39: every entry CheckFilesExistParallel reports with exists = true names
\* a path that, as the call returns, is a regular file of non-zero size,
\* which is what CheckISRCExists requires before it returns a path.
C39_BatchReportsOnlyExistingFiles ==
    iret.op = "CheckFilesExistParallel" /\ iret.err = "" =>
        \A i \in DOMAIN iret.json :
            iret.json[i]["exists"] => CheckFileExists(iret.json[i]["file_path"])

(***************************************************************************)
(* The result channel of RunWithTimeout                                    *)
(***************************************************************************)
\* C40: the execution task sends once, as it ends, whichever way it ends,
\* and at no other step does the channel gain a result; a task that has yet
\* to send finds room in the channel, whatever the caller has done; and a
\* task that has ended stays ended until the next call.
C40_ExecDeliversOnceWithoutBlocking ==
    /\ [](run.exec \in {"running", "panicking"} => Len(run.resultCh) < ResultChCap)
    /\ [][/\ Len(run'.resultCh) > Len(run.resultCh) <=>
                 run.exec \in {"running", "panicking"} /\ run'.exec = "done"
          /\ Len(run'.resultCh) <= Len(run.resultCh) + 1
          /\ run.exec = "done" => run'.exec = "done" \/ run'.main = "idle"]_vars

\* The task has delivered after the caller returned the forced Timeout.
C40_Witness ==
    /\ run.main = "returned"
    /\ run.ret = Forced
    /\ run.exec = "done"
    /\ Len(run.resultCh) = 1

=============================================================================
